---- MODULE Spec2Model ----
(***************************************************************************)
(* Scrapster: email attribution (app.py, direct_scraper.py), result        *)
(* de-duplication (app.py), keyword relevance (keyword_validator.py) and   *)
(* candidate extraction (advanced_scraper.py).                             *)
(*                                                                         *)
(* Python strings are modelled as sequences of one-character strings, so   *)
(* that lower(), strip(), split(), the substring test `in` and the regular *)
(* expressions of the source are computed character by character.          *)
(***************************************************************************)
EXTENDS Integers, Sequences, FiniteSets, TLC

(***************************************************************************)
(* Characters and the str methods the source uses                          *)
(***************************************************************************)
UpperChars == <<"A", "B", "C", "D", "E", "F", "G", "H", "I", "J", "K", "L", "M", "N", "O", "P", "Q", "R", "S", "T", "U", "V", "W", "X", "Y", "Z">>
LowerChars == <<"a", "b", "c", "d", "e", "f", "g", "h", "i", "j", "k", "l", "m", "n", "o", "p", "q", "r", "s", "t", "u", "v", "w", "x", "y", "z">>
DigitChars == <<"0", "1", "2", "3", "4", "5", "6", "7", "8", "9">>

Range(s) == {s[i] : i \in DOMAIN s}
Letters == Range(UpperChars) \cup Range(LowerChars)
Digits == Range(DigitChars)
\* \s of the re module, restricted to the characters the inputs use
Whitespace == {" ", "\t", "\n"}
\* \w of the re module (ASCII part)
WordChars == Letters \cup Digits \cup {"_"}

SetMin(S) == CHOOSE x \in S : \A y \in S : x <= y
SetMax(S) == CHOOSE x \in S : \A y \in S : x >= y

\* str.lower() on one character
LowerChar(c) ==
    IF c \in Range(UpperChars)
    THEN LowerChars[CHOOSE i \in DOMAIN UpperChars : UpperChars[i] = c]
    ELSE c

\* str.lower()
Lower(s) == [i \in DOMAIN s |-> LowerChar(s[i])]

\* str.strip()
Strip(s) ==
    LET keep == {i \in DOMAIN s : s[i] \notin Whitespace}
    IN  IF keep = {} THEN <<>> ELSE SubSeq(s, SetMin(keep), SetMax(keep))

\* `p in s` for two str values
Contains(s, p) ==
    \E i \in 1..(Len(s) - Len(p) + 1) : SubSeq(s, i, i + Len(p) - 1) = p

\* any(p in s for p in patterns), patterns a list of str
ContainsAny(s, patterns) ==
    \E k \in DOMAIN patterns : Contains(s, patterns[k])

\* the last index j >= i - 1 such that s[i..j] lies in the class cls
RunEnd(s, i, cls) ==
    LET bad == {k \in i..Len(s) : s[k] \notin cls}
    IN  IF bad = {} THEN Len(s) ELSE SetMin(bad) - 1

\* str.split(): the maximal runs of non-whitespace characters, in order
RECURSIVE SplitFrom(_, _)
SplitFrom(s, i) ==
    IF i > Len(s) THEN <<>>
    ELSE IF s[i] \in Whitespace THEN SplitFrom(s, i + 1)
    ELSE LET j == RunEnd(s, i, Range(s) \ Whitespace)
         IN  <<SubSeq(s, i, j)>> \o SplitFrom(s, j + 1)

Split(s) == SplitFrom(s, 1)

\* re.sub(r'[^...]', '', s): keep the characters of the class
KeepChars(s, cls) == SelectSeq(s, LAMBDA c : c \in cls)

\* str.split(sep)[0]: the part before the first occurrence of sep
BeforeSep(s, sep) ==
    LET at == {i \in 1..(Len(s) - Len(sep) + 1) : SubSeq(s, i, i + Len(sep) - 1) = sep}
    IN  IF at = {} THEN s ELSE SubSeq(s, 1, SetMin(at) - 1)

\* f"{a} {b}"
Join2(a, b) == a \o <<" ">> \o b

(***************************************************************************)
(* EMAIL_PATTERN, app.py line 40 (the same expression is EMAIL_REGEX of    *)
(* direct_scraper.py line 14):                                             *)
(*   \b[A-Za-z0-9._%+-]+@[A-Za-z0-9.-]+\.[A-Z|a-z]{2,}\b                     *)
(***************************************************************************)
LocalClass == Letters \cup Digits \cup {".", "_", "%", "+", "-"}
DomainClass == Letters \cup Digits \cup {".", "-"}
TldClass == Letters \cup {"|"}

IsWordAt(s, i) == i \in DOMAIN s /\ s[i] \in WordChars

\* \b between positions i - 1 and i
Boundary(s, i) == IsWordAt(s, i - 1) # IsWordAt(s, i)

\* the end of the top-level label that follows the dot at d + 1: the longest
\* run of at least two label characters (that ends at a \b, when the
\* expression is anchored); 0 if none
TldEnd(s, d, anchored) ==
    LET m == RunEnd(s, d + 2, TldClass)
        ts == {t \in (d + 3)..m : anchored => Boundary(s, t + 1)}
    IN  IF ts = {} THEN 0 ELSE SetMax(ts)

\* the end of the match of the email expression that starts at i, 0 if there
\* is none (greedy: the last dot of the domain run that a label can follow);
\* anchored tells whether the expression carries its two \b
EmailMatchEnd(s, i, anchored) ==
    IF i > Len(s) \/ (anchored /\ ~Boundary(s, i)) THEN 0
    ELSE IF s[i] \notin LocalClass THEN 0
    ELSE LET a == RunEnd(s, i, LocalClass) + 1
             lastOf(good) ==
                 IF good = {} THEN 0 ELSE TldEnd(s, SetMax(good), anchored)
         IN  IF a > Len(s) THEN 0
             ELSE IF s[a] # "@" THEN 0
             ELSE lastOf({d \in (a + 1)..(RunEnd(s, a + 1, DomainClass) - 1) :
                             s[d + 1] = "." /\ TldEnd(s, d, anchored) > 0})

\* EMAIL_PATTERN.findall(s)
RECURSIVE FindAllFrom(_, _)
FindAllFrom(s, i) ==
    IF i > Len(s) THEN <<>>
    ELSE LET next(t) == IF t > 0 THEN <<SubSeq(s, i, t)>> \o FindAllFrom(s, t + 1)
                        ELSE FindAllFrom(s, i + 1)
         IN  next(EmailMatchEnd(s, i, TRUE))

FindAll(s) == FindAllFrom(s, 1)

\* the grammar of EMAIL_PATTERN without its \b anchors: s as a whole is
\* local@domain.label
MatchesEmailGrammar(s) ==
    \E a \in DOMAIN s : \E d \in DOMAIN s :
        /\ s[a] = "@" /\ a > 1 /\ d > a + 1 /\ s[d] = "." /\ Len(s) >= d + 2
        /\ \A k \in 1..(a - 1) : s[k] \in LocalClass
        /\ \A k \in (a + 1)..(d - 1) : s[k] \in DomainClass
        /\ \A k \in (d + 1)..Len(s) : s[k] \in TldClass

(***************************************************************************)
(* Pattern bank of app.py                                                  *)
(***************************************************************************)
\* app.py lines 43-48 (direct_scraper.py lines 15-20 hold the same list)
GENERIC_EMAIL_PATTERNS == <<
    <<"n", "o", "r", "e", "p", "l", "y">>,
    <<"n", "o", "-", "r", "e", "p", "l", "y">>,
    <<"d", "o", "n", "o", "t", "r", "e", "p", "l", "y">>,
    <<"s", "u", "p", "p", "o", "r", "t", "@">>,
    <<"i", "n", "f", "o", "@">>,
    <<"c", "o", "n", "t", "a", "c", "t", "@">>,
    <<"a", "d", "m", "i", "n", "@">>,
    <<"w", "e", "b", "m", "a", "s", "t", "e", "r", "@">>,
    <<"p", "r", "i", "v", "a", "c", "y", "@">>,
    <<"h", "e", "l", "l", "o", "@">>,
    <<"m", "a", "i", "l", "e", "r", "-">>,
    <<"p", "o", "s", "t", "m", "a", "s", "t", "e", "r", "@">>,
    <<"s", "a", "l", "e", "s", "@">>,
    <<"m", "a", "r", "k", "e", "t", "i", "n", "g", "@">>,
    <<"h", "e", "l", "p", "@">>,
    <<"c", "u", "s", "t", "o", "m", "e", "r", "s", "e", "r", "v", "i", "c", "e", "@">>,
    <<"s", "e", "r", "v", "i", "c", "e", "@">>,
    <<"b", "r", "o", "o", "f", "a">>,
    <<"e", "x", "a", "m", "p", "l", "e">>,
    <<"t", "e", "s", "t", "@">>,
    <<"s", "a", "m", "p", "l", "e", "@">> >>

\* the shorter list scrape_profile_for_email filters with, app.py line 88
SCRAPE_SKIP_PATTERNS == SubSeq(GENERIC_EMAIL_PATTERNS, 1, 9)

\* the literal prefixes of COMPANY_PATTERNS, app.py lines 59-63, each with
\* whether whitespace must follow (\s+) or may follow (\s*)
COMPANY_PATTERNS == <<
    [prefix |-> <<"a", "t">>, needWs |-> TRUE],
    [prefix |-> <<"@">>, needWs |-> FALSE],
    [prefix |-> <<"f", "r", "o", "m">>, needWs |-> TRUE] >>

\* [a-zA-Z0-9\s&,.-] and (?:\s|,|\.|$) of COMPANY_PATTERNS
CompanyClass == Letters \cup Digits \cup Whitespace \cup {"&", ",", ".", "-"}
CompanyTerm == Whitespace \cup {",", "."}

\* (Inc|LLC|Ltd|Corp|Corporation|Company|Co), matched with re.IGNORECASE
LEGAL_SUFFIXES == <<
    <<"i", "n", "c">>,
    <<"l", "l", "c">>,
    <<"l", "t", "d">>,
    <<"c", "o", "r", "p">>,
    <<"c", "o", "r", "p", "o", "r", "a", "t", "i", "o", "n">>,
    <<"c", "o", "m", "p", "a", "n", "y">>,
    <<"c", "o">> >>

\* the profile sites extract_email scrapes, app.py line 187
PROFILE_DOMAINS == <<
    <<"l", "i", "n", "k", "e", "d", "i", "n", ".", "c", "o", "m", "/", "i", "n">>,
    <<"g", "i", "t", "h", "u", "b", ".", "c", "o", "m">>,
    <<"t", "w", "i", "t", "t", "e", "r", ".", "c", "o", "m">>,
    <<"a", "b", "o", "u", "t", ".", "m", "e">> >>

\* the confidence numbers extract_email attaches to a candidate
CONF_SCRAPED == 4
CONF_TEXT == 3
CONF_URL == 2
CONF_INFERRED == 1

(***************************************************************************)
(* extract_company and the legal-suffix substitution                       *)
(***************************************************************************)
\* re.sub(r'\s+(Inc|LLC|Ltd|Corp|Corporation|Company|Co)\.?$', '', s,
\*        flags=re.IGNORECASE)
RemoveLegalSuffix(s) ==
    LET tail(i) == Lower(SubSeq(s, RunEnd(s, i, Whitespace) + 1, Len(s)))
        isSuffix(t) == \E k \in DOMAIN LEGAL_SUFFIXES :
                          t \in {LEGAL_SUFFIXES[k], LEGAL_SUFFIXES[k] \o <<".">>}
        \* $ matches at the end and before a final newline
        beforeNewline(t) == /\ Len(t) > 0
                            /\ t[Len(t)] = "\n"
                            /\ isSuffix(SubSeq(t, 1, Len(t) - 1))
        cutAt(i) == IF isSuffix(tail(i)) THEN SubSeq(s, 1, i - 1)
                    ELSE SubSeq(s, 1, i - 1) \o <<"\n">>
        leftmost(hits) == IF hits = {} THEN s ELSE cutAt(SetMin(hits))
    IN  leftmost({i \in DOMAIN s :
                     /\ s[i] \in Whitespace
                     /\ (isSuffix(tail(i)) \/ beforeNewline(tail(i)))})

\* group 1 of a match of one COMPANY_PATTERNS entry that starts at i, <<>> if
\* there is none: prefix, whitespace, a letter, then lazily one or more
\* characters of the class up to the first terminator
CompanyGroupAt(s, i, pat) ==
    LET n == Len(pat.prefix)
        p0 == i + n
        p == RunEnd(s, p0, Whitespace) + 1
    IN  IF i + n - 1 > Len(s) \/ Lower(SubSeq(s, i, i + n - 1)) # pat.prefix THEN <<>>
        ELSE IF (pat.needWs /\ p = p0) \/ p > Len(s) THEN <<>>
        ELSE IF s[p] \notin Letters THEN <<>>
        ELSE LET q == RunEnd(s, p + 1, CompanyClass)
                 ks == {j \in (p + 1)..q : j = Len(s) \/ s[j + 1] \in CompanyTerm}
             IN  IF ks = {} THEN <<>> ELSE SubSeq(s, p, SetMin(ks))

\* re.search(pattern, text, re.IGNORECASE).group(1): the leftmost match
CompanySearch(s, pat) ==
    LET leftmost(hits) ==
            IF hits = {} THEN <<>> ELSE CompanyGroupAt(s, SetMin(hits), pat)
    IN  leftmost({i \in DOMAIN s : CompanyGroupAt(s, i, pat) # <<>>})

\* app.py extract_company, lines 225-234: the first pattern that matches
extract_company(text) ==
    LET first(groups) ==
            IF \A k \in DOMAIN groups : groups[k] = <<>> THEN <<>>
            ELSE RemoveLegalSuffix(Strip(
                     groups[SetMin({k \in DOMAIN groups : groups[k] # <<>>})]))
    IN  first([k \in DOMAIN COMPANY_PATTERNS |->
                  CompanySearch(text, COMPANY_PATTERNS[k])])

(***************************************************************************)
(* Candidate validation and inference, app.py lines 97-162                 *)
(***************************************************************************)
\* app.py infer_email_from_name_company, lines 97-132
infer_email_from_name_company(name, company) ==
    LET address(name_parts, company_clean) ==
            IF name_parts = <<>> THEN <<>>
            ELSE IF Len(name_parts) > 1
            THEN name_parts[1] \o <<".">> \o name_parts[Len(name_parts)]
                     \o <<"@">> \o company_clean
            ELSE name_parts[1] \o <<"@">> \o company_clean
    IN  IF name = <<>> \/ company = <<>> THEN <<>>
        ELSE address(Split(Lower(name)),
                     KeepChars(RemoveLegalSuffix(Lower(company)),
                               Range(LowerChars) \cup Digits \cup {".", "-"}))

\* a slip: the patterns are looked for without lower-casing the address
is_generic_email_CaseSensitive(email) == ContainsAny(email, GENERIC_EMAIL_PATTERNS)

\* app.py is_generic_email, lines 134-137
is_generic_email(email) == ContainsAny(Lower(email), GENERIC_EMAIL_PATTERNS)

\* [p.lower() for p in name.split() if len(p) > 2]
NameParts(name) ==
    LET long == SelectSeq(Split(name), LAMBDA p : Len(p) > 2)
    IN  [i \in DOMAIN long |-> Lower(long[i])]

\* any(part in email_lower for part in name_parts)
MatchesName(email, name) == ContainsAny(Lower(email), NameParts(name))

\* the company rule of is_profile_specific_email, app.py lines 154-160
MatchesCompany(email, profile_text) ==
    LET inEmail(company) ==
            /\ company # <<>>
            /\ Contains(Lower(email),
                   KeepChars(SelectSeq(Lower(company),
                                 LAMBDA c : c \notin {" ", "&", ","}),
                             Range(LowerChars) \cup Digits \cup {".", "-"}))
    IN  profile_text # <<>> /\ inEmail(extract_company(profile_text))

\* app.py is_profile_specific_email, lines 139-162
is_profile_specific_email(email, name, profile_text) ==
    /\ name # <<>>
    /\ email # <<>>
    /\ (MatchesName(email, name) \/ MatchesCompany(email, profile_text))

(***************************************************************************)
(* scrape_profile_for_email (basic HTTP path) and extract_email            *)
(***************************************************************************)
\* app.py scrape_profile_for_email with use_advanced = False, lines 76-95.
\* resp is what requests.get gave: ok is FALSE for an exception or a status
\* other than 200, text is the page.
scrape_profile_for_email(url, resp) ==
    LET choose(emails, filtered) ==
            IF emails = <<>> THEN <<>>
            ELSE IF filtered # <<>> THEN filtered[1]
            ELSE emails[1]
        pick(emails) ==
            choose(emails,
                   SelectSeq(emails,
                       LAMBDA e : ~ContainsAny(Lower(e), SCRAPE_SKIP_PATTERNS)))
    IN  IF ~resp.ok THEN <<>> ELSE pick(FindAll(resp.text))

\* One `for email in ...` loop of extract_email (lines 170-175, 180-184): ret is
\* the email the loop returns from the function, <<>> if it runs to its end;
\* found is what it appended to all_found_emails.
ScanCandidates(emails, name, text, conf) ==
    LET outcome(personal, specific) ==
            IF specific # <<>>
            THEN [ret |-> specific[1], found |-> <<>>]
            ELSE [ret |-> <<>>,
                  found |-> [i \in DOMAIN personal |-> <<personal[i], conf>>]]
        scan(personal) ==
            outcome(personal,
                    SelectSeq(personal,
                        LAMBDA e : is_profile_specific_email(e, name, text)))
    IN  scan(SelectSeq(emails, LAMBDA e : ~is_generic_email(e)))

\* Strategy 3, app.py lines 187-192: the candidate scraped from the profile page
ScrapedCandidate(profile_url, resp) ==
    IF profile_url # <<>> /\ ContainsAny(Lower(profile_url), PROFILE_DOMAINS)
    THEN scrape_profile_for_email(profile_url, resp)
    ELSE <<>>

\* all_found_emails.append((inferred, 1)) of the two inference strategies
AppendInferred(all_found_emails, inferred) ==
    IF inferred # <<>> /\ ~is_generic_email(inferred)
    THEN Append(all_found_emails, <<inferred, CONF_INFERRED>>)
    ELSE all_found_emails

\* Strategy 4, app.py lines 195-198
Strategy4(all_found_emails, name, company) ==
    IF all_found_emails = <<>> /\ name # <<>> /\ company # <<>>
    THEN AppendInferred(all_found_emails,
                        infer_email_from_name_company(name, company))
    ELSE all_found_emails

\* Strategy 5, app.py lines 201-206
Strategy5(all_found_emails, name, text) ==
    LET fromCompany(company_from_text) ==
            IF company_from_text # <<>>
            THEN AppendInferred(all_found_emails,
                     infer_email_from_name_company(name, company_from_text))
            ELSE all_found_emails
    IN  IF all_found_emails = <<>> /\ name # <<>> /\ text # <<>>
        THEN fromCompany(extract_company(text))
        ELSE all_found_emails

\* list.sort(key=lambda x: x[1], reverse=True): stable, highest confidence first
RECURSIVE SortByConfidence(_)
SortByConfidence(found) ==
    IF found = <<>> THEN <<>>
    ELSE LET m == SetMax({found[i][2] : i \in DOMAIN found})
             k == SetMin({i \in DOMAIN found : found[i][2] = m})
         IN  <<found[k]>> \o
             SortByConfidence(SubSeq(found, 1, k - 1) \o SubSeq(found, k + 1, Len(found)))

\* a slip: the first candidate found is returned, the list is not sorted
BestMatch_FirstFound(all_found_emails) ==
    IF all_found_emails # <<>> THEN all_found_emails[1][1] ELSE <<>>

\* app.py lines 209-214
BestMatch(all_found_emails) ==
    IF all_found_emails # <<>> THEN SortByConfidence(all_found_emails)[1][1] ELSE <<>>

\* app.py extract_email, lines 164-214
extract_email(text, url, name, company, profile_url, resp) ==
    LET rank(s1, s2, scraped_email, usable) ==
            IF s1.ret # <<>> THEN s1.ret
            ELSE IF s2.ret # <<>> THEN s2.ret
            ELSE IF usable /\ is_profile_specific_email(scraped_email, name, text)
            THEN scraped_email
            ELSE BestMatch(
                     Strategy5(
                         Strategy4(s1.found \o s2.found \o
                                       (IF usable
                                        THEN <<<<scraped_email, CONF_SCRAPED>>>>
                                        ELSE <<>>),
                                   name, company),
                         name, text))
        select(s1, s2, scraped_email) ==
            rank(s1, s2, scraped_email,
                 scraped_email # <<>> /\ ~is_generic_email(scraped_email))
    IN  select(ScanCandidates(FindAll(text), name, text, CONF_TEXT),
               IF url # <<>>
               THEN ScanCandidates(FindAll(url), name, text, CONF_URL)
               ELSE [ret |-> <<>>, found |-> <<>>],
               ScrapedCandidate(profile_url, resp))

(***************************************************************************)
(* deduplicate_results, app.py lines 285-314                               *)
(***************************************************************************)
\* result.get('email', '').lower().strip() if result.get('email') else ''
DedupEmail(result) ==
    IF result.email # <<>> THEN Strip(Lower(result.email)) ELSE <<>>

\* seen_urls = set(); seen_emails = {}; unique_results = []
DedupInit ==
    [seen_urls |-> {}, seen_emails |-> [e \in {} |-> <<>>], unique_results |-> <<>>]

\* seen_emails[email] = url
Claim(seen_emails, email, url) ==
    [e \in DOMAIN seen_emails \cup {email} |->
        IF e = email THEN url ELSE seen_emails[e]]

\* a slip: the email claim is recorded before the `continue` of a conflict
DedupStep_ClaimBeforeSkip(st, result) ==
    LET url == result.profile_url
        email == DedupEmail(result)
    IN  IF url # <<>> /\ url \in st.seen_urls THEN st
        ELSE IF /\ email # <<>>
                /\ email \in DOMAIN st.seen_emails
                /\ st.seen_emails[email] # url
             THEN [st EXCEPT !.seen_emails = Claim(st.seen_emails, email, url)]
        ELSE [seen_urls |-> IF url # <<>> THEN st.seen_urls \cup {url} ELSE st.seen_urls,
              seen_emails |-> IF email # <<>> THEN Claim(st.seen_emails, email, url)
                              ELSE st.seen_emails,
              unique_results |-> Append(st.unique_results, result)]

\* a slip: the email test without the comparison of the claiming URL
DedupStep_NoUrlCompare(st, result) ==
    LET url == result.profile_url
        email == DedupEmail(result)
    IN  IF url # <<>> /\ url \in st.seen_urls THEN st
        ELSE IF email # <<>> /\ email \in DOMAIN st.seen_emails THEN st
        ELSE [seen_urls |-> IF url # <<>> THEN st.seen_urls \cup {url} ELSE st.seen_urls,
              seen_emails |-> IF email # <<>> THEN Claim(st.seen_emails, email, url)
                              ELSE st.seen_emails,
              unique_results |-> Append(st.unique_results, result)]

\* a slip: the kept entry is stored with its cleaned email
DedupStep_StoresCleaned(st, result) ==
    LET url == result.profile_url
        email == DedupEmail(result)
    IN  IF url # <<>> /\ url \in st.seen_urls THEN st
        ELSE IF /\ email # <<>>
                /\ email \in DOMAIN st.seen_emails
                /\ st.seen_emails[email] # url
             THEN st
        ELSE [seen_urls |-> IF url # <<>> THEN st.seen_urls \cup {url} ELSE st.seen_urls,
              seen_emails |-> IF email # <<>> THEN Claim(st.seen_emails, email, url)
                              ELSE st.seen_emails,
              unique_results |-> Append(st.unique_results, [result EXCEPT !.email = email])]

\* one iteration of `for result in results`, lines 291-312
DedupStep(st, result) ==
    LET url == result.profile_url
        email == DedupEmail(result)
    IN  IF url # <<>> /\ url \in st.seen_urls THEN st
        ELSE IF /\ email # <<>>
                /\ email \in DOMAIN st.seen_emails
                /\ st.seen_emails[email] # url
             THEN st
        ELSE [seen_urls |-> IF url # <<>> THEN st.seen_urls \cup {url} ELSE st.seen_urls,
              seen_emails |-> IF email # <<>> THEN Claim(st.seen_emails, email, url)
                              ELSE st.seen_emails,
              unique_results |-> Append(st.unique_results, result)]

RECURSIVE DedupLoop(_, _, _)
DedupLoop(st, batch, i) ==
    IF i > Len(batch) THEN st ELSE DedupLoop(DedupStep(st, batch[i]), batch, i + 1)

deduplicate_results(batch) == DedupLoop(DedupInit, batch, 1).unique_results

(***************************************************************************)
(* The body of the item loop of the /scrape route, app.py lines 570-692    *)
(***************************************************************************)
\* the keywords of contact_patterns, app.py lines 617-622
CONTACT_KEYWORDS == <<
    <<"c", "o", "n", "t", "a", "c", "t">>,
    <<"e", "m", "a", "i", "l">>,
    <<"r", "e", "a", "c", "h">>,
    <<"m", "a", "i", "l">> >>

\* app.py line 587 and line 589
LINK_SKIP_TERMS == <<
    <<"/", "c", "o", "m", "p", "a", "n", "y", "/">>,
    <<"/", "c", "a", "r", "e", "e", "r", "s", "/">>,
    <<"/", "j", "o", "b", "s", "/">>,
    <<"/", "t", "e", "a", "m", "/">> >>
LINK_PROFILE_TERMS == <<
    <<"/", "i", "n", "/">>,
    <<"/", "p", "r", "o", "f", "i", "l", "e", "/">>,
    <<"/", "p", "u", "b", "/">> >>

\* app.py line 600
COMPANY_NAME_TERMS == <<
    <<"I", "n", "c", ".">>,
    <<"L", "L", "C">>,
    <<"C", "o", "r", "p", ".">>,
    <<"C", "o", "r", "p", "o", "r", "a", "t", "i", "o", "n">>,
    <<"C", "o", "m", "p", "a", "n", "y">>,
    <<"L", "t", "d", ".">>,
    <<"L", "i", "m", "i", "t", "e", "d">> >>

UNKNOWN == <<"U", "n", "k", "n", "o", "w", "n">>

\* group 1 of a match of keyword[:\s]+(email) that starts at i, <<>> if none;
\* the email expression is the one of EMAIL_PATTERN without its \b
ContactGroupAt(s, i, keyword) ==
    LET n == Len(keyword)
        p == RunEnd(s, i + n, Whitespace \cup {":"}) + 1
        group(t) == IF t = 0 THEN <<>> ELSE SubSeq(s, p, t)
    IN  IF i + n - 1 > Len(s) THEN <<>>
        ELSE IF Lower(SubSeq(s, i, i + n - 1)) # keyword \/ p = i + n THEN <<>>
        ELSE group(EmailMatchEnd(s, p, FALSE))

\* re.search(pattern, snippet, re.IGNORECASE).group(1), <<>> without a match
ContactSearch(s, keyword) ==
    LET leftmost(hits) ==
            IF hits = {} THEN <<>> ELSE ContactGroupAt(s, SetMin(hits), keyword)
    IN  leftmost({i \in DOMAIN s : ContactGroupAt(s, i, keyword) # <<>>})

\* Strategy 2 of the route, lines 616-630: the first pattern whose match is
\* not generic gives the email
ContactEmail(snippet) ==
    LET usable(g) == g # <<>> /\ ~is_generic_email(g)
        first(groups) ==
            IF \A k \in DOMAIN groups : ~usable(groups[k]) THEN <<>>
            ELSE groups[SetMin({k \in DOMAIN groups : usable(groups[k])})]
    IN  first([k \in DOMAIN CONTACT_KEYWORDS |->
                  ContactSearch(snippet, CONTACT_KEYWORDS[k])])

\* Strategy 3 of the route, lines 633-652. adv is what
\* advanced_scraper.scrape_profile_email gave: raised, or success and emails.
AdvancedEmail(adv, name, snippet) ==
    LET choose(personal, specific) ==
            IF specific # <<>> THEN specific[1]
            ELSE IF personal # <<>> THEN personal[1]
            ELSE <<>>
        pick(personal) ==
            choose(personal,
                   SelectSeq(personal,
                       LAMBDA e : is_profile_specific_email(e, name, snippet)))
    IN  IF adv.raised \/ ~adv.success \/ adv.emails = <<>> THEN <<>>
        ELSE pick(SelectSeq(adv.emails, LAMBDA e : ~is_generic_email(e)))

\* name from the title, lines 593-597
NameFromTitle(title) ==
    LET orUnknown(second) == IF second # <<>> THEN second ELSE UNKNOWN
        orSecond(first) ==
            IF first # <<>> THEN first
            ELSE orUnknown(Strip(BeforeSep(title, <<" ", "-", " ">>)))
    IN  orSecond(Strip(BeforeSep(BeforeSep(title, <<" ", "|", " ">>), <<" ", "-", " ">>)))

\* name looks like a company, lines 600-603
LooksLikeCompany(name) ==
    ContainsAny(name, COMPANY_NAME_TERMS) /\ Len(Split(name)) <= 2

\* the items the loop passes over before it extracts anything, lines 581-603
ItemSkipped(it) ==
    \/ it.title = <<>> /\ it.link = <<>>
    \/ /\ ContainsAny(Lower(it.link), LINK_SKIP_TERMS)
       /\ ~ContainsAny(Lower(it.link), LINK_PROFILE_TERMS)
    \/ LooksLikeCompany(NameFromTitle(it.title))

\* the email of the item when extract_emails_enabled is on, lines 610-650;
\* advanced tells whether the advanced scraper is enabled and running
ItemEmail(it, name, company, advanced) ==
    LET third(e2) ==
            IF e2 # <<>> \/ ~advanced THEN e2
            ELSE AdvancedEmail(it.adv, name, it.snippet)
        second(e1) == third(IF e1 # <<>> THEN e1 ELSE ContactEmail(it.snippet))
    IN  second(extract_email(Join2(it.title, it.snippet), it.link, name, company,
                             it.link, it.resp))

\* the final name test, lines 670-678: FALSE when the row is passed over
NameCheckPasses(email, name) ==
    NameParts(name) = <<>> \/ MatchesName(email, name)

\* results after the lines 605-692 ran for an item that was not passed over
\* (of the row, the fields derived from nothing but the link and the title
\* are left out)
AfterExtraction(rows, it, req, name, company) ==
    LET append(email) ==
            IF req.extract_emails /\ (email = <<>> \/ ~NameCheckPasses(email, name))
            THEN rows
            ELSE Append(rows, [name |-> name,
                               company |-> company,
                               email |-> email,
                               profile_url |-> it.link,
                               snippet |-> it.snippet,
                               title |-> it.title])
    IN  append(IF req.extract_emails
               THEN ItemEmail(it, name, company, req.enable_advanced_scraping)
               ELSE <<>>)

\* results after the body of the loop ran for the item
AfterItem(rows, it, req) ==
    IF ItemSkipped(it) THEN rows
    ELSE AfterExtraction(rows, it, req, NameFromTitle(it.title),
                         extract_company(it.snippet))

\* the end of the route, lines 719-727: de-duplicate, drop the rows without an
\* email when extraction is enabled, cut to the limit
FinalResults(rows, req) ==
    LET cut(withEmail) ==
            SubSeq(withEmail, 1,
                   IF Len(withEmail) < req.limit THEN Len(withEmail) ELSE req.limit)
        filter(deduped) ==
            cut(IF req.extract_emails
                THEN SelectSeq(deduped, LAMBDA r : Strip(r.email) # <<>>)
                ELSE deduped)
    IN  filter(deduplicate_results(rows))

(***************************************************************************)
(* DirectWebScraper, direct_scraper.py                                     *)
(***************************************************************************)
\* _intercept_emails, lines 54-70: the emails one API response adds
InterceptedFrom(text) ==
    {Lower(e) : e \in {f \in Range(FindAll(text)) :
                          ~ContainsAny(Lower(f), GENERIC_EMAIL_PATTERNS)}}

\* extract_profile_data, lines 251-263: the email taken from the page text
PageTextEmail(text_content, name) ==
    LET first(fits) == IF fits # <<>> THEN fits[1] ELSE <<>>
    IN  first(SelectSeq(FindAll(text_content),
                  LAMBDA e : /\ ~ContainsAny(Lower(e), GENERIC_EMAIL_PATTERNS)
                             /\ (name # <<>> => MatchesName(e, name))))

\* extract_profile_data, lines 265-267: list(self.intercepted_emails)[0] is
\* whichever element the set iterates first, so any element may come out
ProfileEmails(text_content, name, intercepted) ==
    LET orIntercepted(email) ==
            IF email # <<>> THEN {email}
            ELSE IF intercepted # {} THEN intercepted
            ELSE {<<>>}
    IN  orIntercepted(PageTextEmail(text_content, name))

\* the dict extract_profile_data returns, lines 303-327, for the profile p
\* and the page page (failed: the navigation raised)
ProfileData(p, page, email) ==
    [name |-> IF p.name # <<>> THEN p.name ELSE UNKNOWN,
     email |-> IF page.failed THEN <<>> ELSE email,
     profile_url |-> p.profile_url,
     snippet |-> IF page.failed THEN <<>> ELSE Strip(page.text_content)]

\* scrape_profiles, lines 392-438: whether the profile is appended
DirectKept(data, is_valid, extract_emails) ==
    /\ is_valid
    /\ (extract_emails /\ data.email # <<>>) =>
           /\ ~ContainsAny(Lower(data.email), GENERIC_EMAIL_PATTERNS)
           /\ data.name # <<>>
           /\ data.name # UNKNOWN
           /\ (NameParts(data.name) = <<>> \/ MatchesName(data.email, data.name))
    /\ extract_emails => data.email # <<>>

(***************************************************************************)
(* KeywordRelevanceValidator, keyword_validator.py                         *)
(*                                                                         *)
(* A float of the source is kept as the fraction it stands for, a record   *)
(* of a numerator and a positive denominator in lowest terms; the sums,    *)
(* products and comparisons of the source are the ones of fractions.       *)
(***************************************************************************)
RECURSIVE GCD(_, _)
GCD(a, b) == IF b = 0 THEN a ELSE GCD(b, a % b)

\* the fraction n / d in lowest terms
Frac(n, d) == [num |-> n \div GCD(n, d), den |-> d \div GCD(n, d)]
FracAdd(a, b) == Frac(a.num * b.den + b.num * a.den, a.den * b.den)
FracMul(a, b) == Frac(a.num * b.num, a.den * b.den)
FracLeq(a, b) == a.num * b.den <= b.num * a.den
FracLess(a, b) == a.num * b.den < b.num * a.den
FracEq(a, b) == a.num * b.den = b.num * a.den
\* a slip: the larger of the two is taken
FracMin_Larger(a, b) == IF FracLess(b, a) THEN a ELSE b

\* min(a, b) of Python: b only when it is smaller than a
FracMin(a, b) == IF FracLess(b, a) THEN b ELSE a

\* keyword_validator.py lines 9-15
IRRELEVANT_TERMS == <<
    <<"s", "h", "o", "p">>, <<"s", "t", "o", "r", "e">>, <<"b", "u", "y">>, <<"s", "e", "l", "l">>, <<"p", "u", "r", "c", "h", "a", "s", "e">>,
    <<"p", "r", "i", "c", "e">>, <<"d", "e", "a", "l">>, <<"d", "i", "s", "c", "o", "u", "n", "t">>,
    <<"p", "r", "o", "d", "u", "c", "t">>, <<"p", "r", "o", "d", "u", "c", "t", "s">>, <<"e", "q", "u", "i", "p", "m", "e", "n", "t">>, <<"d", "e", "v", "i", "c", "e">>,
    <<"s", "c", "a", "n", "n", "e", "r">>, <<"r", "e", "a", "d", "e", "r">>,
    <<"h", "a", "n", "d", "b", "a", "g">>, <<"w", "a", "l", "l", "e", "t">>, <<"b", "l", "o", "c", "k", "i", "n", "g">>, <<"p", "r", "o", "t", "e", "c", "t", "i", "o", "n">>,
    <<"c", "a", "r", "d", " ", "h", "o", "l", "d", "e", "r">>,
    <<"a", "m", "a", "z", "o", "n">>, <<"e", "b", "a", "y">>, <<"a", "l", "i", "e", "x", "p", "r", "e", "s", "s">>, <<"w", "h", "o", "l", "e", "s", "a", "l", "e">>, <<"r", "e", "t", "a", "i", "l">>,
    <<"s", "h", "i", "p", "p", "i", "n", "g">>, <<"d", "e", "l", "i", "v", "e", "r", "y">>, <<"o", "r", "d", "e", "r">>, <<"c", "a", "r", "t">>, <<"c", "h", "e", "c", "k", "o", "u", "t">> >>

\* keyword_validator.py lines 18-24
PROFESSIONAL_TERMS == <<
    <<"e", "n", "g", "i", "n", "e", "e", "r">>, <<"d", "e", "v", "e", "l", "o", "p", "e", "r">>, <<"a", "r", "c", "h", "i", "t", "e", "c", "t">>, <<"s", "p", "e", "c", "i", "a", "l", "i", "s", "t">>,
    <<"c", "o", "n", "s", "u", "l", "t", "a", "n", "t">>,
    <<"m", "a", "n", "a", "g", "e", "r">>, <<"d", "i", "r", "e", "c", "t", "o", "r">>, <<"l", "e", "a", "d">>, <<"s", "e", "n", "i", "o", "r">>, <<"p", "r", "i", "n", "c", "i", "p", "a", "l">>,
    <<"s", "t", "a", "f", "f">>,
    <<"r", "e", "s", "e", "a", "r", "c", "h", "e", "r">>, <<"a", "n", "a", "l", "y", "s", "t">>, <<"s", "c", "i", "e", "n", "t", "i", "s", "t">>, <<"e", "x", "p", "e", "r", "t">>,
    <<"p", "r", "o", "f", "e", "s", "s", "i", "o", "n", "a", "l">>,
    <<"e", "x", "p", "e", "r", "i", "e", "n", "c", "e">>, <<"y", "e", "a", "r", "s">>, <<"s", "k", "i", "l", "l", "s">>, <<"c", "e", "r", "t", "i", "f", "i", "c", "a", "t", "i", "o", "n">>,
    <<"d", "e", "g", "r", "e", "e">>,
    <<"u", "n", "i", "v", "e", "r", "s", "i", "t", "y">>, <<"c", "o", "l", "l", "e", "g", "e">>, <<"e", "d", "u", "c", "a", "t", "i", "o", "n">>, <<"p", "r", "o", "j", "e", "c", "t">>, <<"t", "e", "a", "m">> >>

\* keyword_validator.py line 37
STOP_WORDS == <<
    <<"t", "h", "e">>, <<"a", "n", "d">>, <<"o", "r">>, <<"f", "o", "r">>, <<"w", "i", "t", "h">>, <<"f", "r", "o", "m">> >>

\* product_indicators, keyword_validator.py line 65
PRODUCT_INDICATORS == <<
    <<"s", "h", "o", "p">>, <<"b", "u", "y">>, <<"s", "e", "l", "l">>, <<"p", "r", "i", "c", "e">>, <<"a", "d", "d", " ", "t", "o", " ", "c", "a", "r", "t">>,
    <<"c", "h", "e", "c", "k", "o", "u", "t">> >>

\* company_page_indicators, keyword_validator.py line 71
COMPANY_PAGE_INDICATORS == <<
    <<"a", "b", "o", "u", "t", " ", "u", "s">>, <<"o", "u", "r", " ", "c", "o", "m", "p", "a", "n", "y">>, <<"o", "u", "r", " ", "t", "e", "a", "m">>, <<"c", "o", "n", "t", "a", "c", "t", " ", "u", "s">>,
    <<"c", "a", "r", "e", "e", "r", "s">> >>

\* the list of the not_company_page check, keyword_validator.py line 145
NOT_COMPANY_PAGE_TERMS == <<
    <<"a", "b", "o", "u", "t", " ", "u", "s">>, <<"o", "u", "r", " ", "c", "o", "m", "p", "a", "n", "y">>, <<"c", "o", "n", "t", "a", "c", "t", " ", "u", "s">> >>

\* the weights and the threshold of the score, keyword_validator.py
KEYWORD_WEIGHT == Frac(4, 10)
PROFESSIONAL_WEIGHT == Frac(3, 10)
JOB_TITLE_WEIGHT == Frac(2, 10)
COMPANY_WEIGHT == Frac(1, 10)
\* a slip: no penalty when no keyword term matches
NO_KEYWORD_FACTOR_Off == Frac(1, 1)
NO_KEYWORD_FACTOR == Frac(3, 10)
MIN_SCORE == Frac(3, 10)
PROFESSIONAL_CAP == 5
NOT_PRODUCT_TERMS == 5

\* the separators of re.split(r'[\s,.-]+', keyword)
KeywordSeparators == Whitespace \cup {",", ".", "-"}

\* re.split(r'[\s,.-]+', s) without the empty strings it gives at the two
\* ends (the caller keeps only parts longer than 2 characters)
RECURSIVE ReSplitFrom(_, _)
ReSplitFrom(s, i) ==
    IF i > Len(s) THEN <<>>
    ELSE IF s[i] \in KeywordSeparators THEN ReSplitFrom(s, i + 1)
    ELSE LET more(j) == <<SubSeq(s, i, j)>> \o ReSplitFrom(s, j + 1)
         IN  more(RunEnd(s, i, Range(s) \ KeywordSeparators))

\* sum(1 for term in terms if term in text), terms a list
CountIn(text, terms) == Cardinality({k \in DOMAIN terms : Contains(text, terms[k])})

\* the same sum for a collection without duplicates
CountOfSet(text, terms) == Cardinality({t \in terms : Contains(text, t)})

\* any(term in text for term in terms), terms a collection without duplicates
AnyOfSet(text, terms) == \E t \in terms : Contains(text, t)

\* __init__, line 27: the keywords lower-cased and stripped, blank ones left out
CleanKeywords(keywords) ==
    LET kept == SelectSeq(keywords, LAMBDA k : Strip(k) # <<>>)
    IN  [i \in DOMAIN kept |-> Strip(Lower(kept[i]))]

\* _extract_keyword_terms, lines 30-39: list(set(terms)) is used only through
\* its length and membership tests, it is kept as the set
extract_keyword_terms(keywords) ==
    {p \in UNION {Range(ReSplitFrom(Lower(keywords[i]), 1)) : i \in DOMAIN keywords} :
        Len(p) > 2 /\ p \notin Range(STOP_WORDS)}

\* KeywordRelevanceValidator(keywords), lines 26-28
NewValidator(keywords) ==
    LET object(cleaned) ==
            [keywords |-> cleaned, keyword_terms |-> extract_keyword_terms(cleaned)]
    IN  object(CleanKeywords(keywords))

\* a slip: the combined text is not lower-cased
CombinedText_NoLower(profile_text, title, job_title, company) ==
    Join2(title, Join2(job_title, Join2(company, profile_text)))

\* f"{title} {job_title} {company} {profile_text}".lower(), line 51
CombinedText(profile_text, title, job_title, company) ==
    Lower(Join2(title, Join2(job_title, Join2(company, profile_text))))

\* a slip: the professional part is not capped
BaseScore_NoCap(keyword_matches, total_terms, professional_count, job_match, company_match) ==
    LET penalised(base_score) ==
            IF keyword_matches = 0 THEN FracMul(base_score, NO_KEYWORD_FACTOR)
            ELSE base_score
        withCompany(base_score) ==
            penalised(IF company_match THEN FracAdd(base_score, COMPANY_WEIGHT)
                      ELSE base_score)
        withJob(base_score) ==
            withCompany(IF job_match THEN FracAdd(base_score, JOB_TITLE_WEIGHT)
                        ELSE base_score)
        withProfessional(base_score) ==
            withJob(IF professional_count > 0
                    THEN FracAdd(base_score,
                             FracMul(Frac(professional_count, PROFESSIONAL_CAP),
                                     PROFESSIONAL_WEIGHT))
                    ELSE base_score)
    IN  withProfessional(IF keyword_matches > 0
                         THEN FracAdd(Frac(0, 1),
                                  FracMul(FracMin(Frac(keyword_matches, total_terms),
                                                  Frac(1, 1)),
                                          KEYWORD_WEIGHT))
                         ELSE Frac(0, 1))

\* a slip: the penalty falls on the profiles that match a keyword
BaseScore_PenaltyInverted(keyword_matches, total_terms, professional_count, job_match, company_match) ==
    LET penalised(base_score) ==
            IF keyword_matches > 0 THEN FracMul(base_score, NO_KEYWORD_FACTOR)
            ELSE base_score
        withCompany(base_score) ==
            penalised(IF company_match THEN FracAdd(base_score, COMPANY_WEIGHT)
                      ELSE base_score)
        withJob(base_score) ==
            withCompany(IF job_match THEN FracAdd(base_score, JOB_TITLE_WEIGHT)
                        ELSE base_score)
        withProfessional(base_score) ==
            withJob(IF professional_count > 0
                    THEN FracAdd(base_score,
                             FracMul(FracMin(Frac(professional_count, PROFESSIONAL_CAP),
                                             Frac(1, 1)),
                                     PROFESSIONAL_WEIGHT))
                    ELSE base_score)
    IN  withProfessional(IF keyword_matches > 0
                         THEN FracAdd(Frac(0, 1),
                                  FracMul(FracMin(Frac(keyword_matches, total_terms),
                                                  Frac(1, 1)),
                                          KEYWORD_WEIGHT))
                         ELSE Frac(0, 1))

\* lines 76-103: the weighted sum and the penalty
BaseScore(keyword_matches, total_terms, professional_count, job_match, company_match) ==
    LET penalised(base_score) ==
            IF keyword_matches = 0 THEN FracMul(base_score, NO_KEYWORD_FACTOR)
            ELSE base_score
        withCompany(base_score) ==
            penalised(IF company_match THEN FracAdd(base_score, COMPANY_WEIGHT)
                      ELSE base_score)
        withJob(base_score) ==
            withCompany(IF job_match THEN FracAdd(base_score, JOB_TITLE_WEIGHT)
                        ELSE base_score)
        withProfessional(base_score) ==
            withJob(IF professional_count > 0
                    THEN FracAdd(base_score,
                             FracMul(FracMin(Frac(professional_count, PROFESSIONAL_CAP),
                                             Frac(1, 1)),
                                     PROFESSIONAL_WEIGHT))
                    ELSE base_score)
    IN  withProfessional(IF keyword_matches > 0
                         THEN FracAdd(Frac(0, 1),
                                  FracMul(FracMin(Frac(keyword_matches, total_terms),
                                                  Frac(1, 1)),
                                          KEYWORD_WEIGHT))
                         ELSE Frac(0, 1))

\* lines 105-116: the signals that fired, each with its count (the text of
\* the reason is abbreviated to the signal it names)
ScoreReasons(keyword_matches, professional_count, job_match) ==
    LET orNone(reasons) ==
            IF reasons = <<>> THEN << <<"No clear keyword relevance", 0>> >>
            ELSE reasons
    IN  orNone((IF keyword_matches > 0
                THEN << <<"keyword match(es)", keyword_matches>> >> ELSE <<>>)
               \o (IF professional_count > 0
                   THEN << <<"professional indicator(s)", professional_count>> >>
                   ELSE <<>>)
               \o (IF job_match THEN << <<"Job title matches keywords", 0>> >>
                   ELSE <<>>))

\* a slip: the irrelevant vocabulary rejects from three terms on
ScoreCombined_ThreeIrrelevant(self, combined_text, job_title, company) ==
    LET scored(keyword_matches, professional_count, job_match, company_match) ==
            [score |-> FracMin(BaseScore(keyword_matches,
                                         Cardinality(self.keyword_terms),
                                         professional_count, job_match,
                                         company_match),
                               Frac(1, 1)),
             reason |-> ScoreReasons(keyword_matches, professional_count, job_match)]
        checked(irrelevant_count) ==
            IF irrelevant_count >= 3
            THEN [score |-> Frac(0, 1),
                  reason |-> << <<"selling products", irrelevant_count>> >>]
            ELSE IF ContainsAny(combined_text, PRODUCT_INDICATORS)
            THEN [score |-> Frac(0, 1), reason |-> << <<"product listing", 0>> >>]
            ELSE IF CountIn(combined_text, COMPANY_PAGE_INDICATORS) >= 2
            THEN [score |-> Frac(0, 1), reason |-> << <<"company page", 0>> >>]
            ELSE scored(CountOfSet(combined_text, self.keyword_terms),
                        CountIn(combined_text, PROFESSIONAL_TERMS),
                        job_title # <<>>
                            /\ AnyOfSet(Lower(job_title), self.keyword_terms),
                        company # <<>>
                            /\ AnyOfSet(Lower(company), self.keyword_terms))
    IN  checked(CountIn(combined_text, IRRELEVANT_TERMS))

\* lines 53-118 on the combined text
ScoreCombined(self, combined_text, job_title, company) ==
    LET scored(keyword_matches, professional_count, job_match, company_match) ==
            [score |-> FracMin(BaseScore(keyword_matches,
                                         Cardinality(self.keyword_terms),
                                         professional_count, job_match,
                                         company_match),
                               Frac(1, 1)),
             reason |-> ScoreReasons(keyword_matches, professional_count, job_match)]
        checked(irrelevant_count) ==
            IF irrelevant_count >= 2
            THEN [score |-> Frac(0, 1),
                  reason |-> << <<"selling products", irrelevant_count>> >>]
            ELSE IF ContainsAny(combined_text, PRODUCT_INDICATORS)
            THEN [score |-> Frac(0, 1), reason |-> << <<"product listing", 0>> >>]
            ELSE IF CountIn(combined_text, COMPANY_PAGE_INDICATORS) >= 2
            THEN [score |-> Frac(0, 1), reason |-> << <<"company page", 0>> >>]
            ELSE scored(CountOfSet(combined_text, self.keyword_terms),
                        CountIn(combined_text, PROFESSIONAL_TERMS),
                        job_title # <<>>
                            /\ AnyOfSet(Lower(job_title), self.keyword_terms),
                        company # <<>>
                            /\ AnyOfSet(Lower(company), self.keyword_terms))
    IN  checked(CountIn(combined_text, IRRELEVANT_TERMS))

\* calculate_relevance_score, lines 41-118
calculate_relevance_score(self, profile_text, title, job_title, company) ==
    IF profile_text = <<>>
    THEN [score |-> Frac(0, 1), reason |-> << <<"No profile text available", 0>> >>]
    ELSE ScoreCombined(self, CombinedText(profile_text, title, job_title, company),
                       job_title, company)

\* the checks of validate_profile, lines 140-146
ProfileChecks(self, name, profile_text) ==
    LET checks(text) ==
            [has_name |-> name # <<>> /\ name # UNKNOWN /\ Len(name) > 2,
             has_keyword_match |-> AnyOfSet(text, self.keyword_terms),
             is_professional |-> ContainsAny(text, PROFESSIONAL_TERMS),
             not_product |->
                 ~ContainsAny(text, SubSeq(IRRELEVANT_TERMS, 1, NOT_PRODUCT_TERMS)),
             not_company_page |-> ~ContainsAny(text, NOT_COMPANY_PAGE_TERMS)]
    IN  checks(Lower(profile_text))

\* a slip: is_professional gates is_valid as well
IsValid_ProfessionalGates(score, checks) ==
    /\ FracLeq(MIN_SCORE, score)
    /\ checks.has_name
    /\ checks.has_keyword_match
    /\ checks.not_product
    /\ checks.is_professional

\* is_valid, lines 153-158
IsValid(score, checks) ==
    /\ FracLeq(MIN_SCORE, score)
    /\ checks.has_name
    /\ checks.has_keyword_match
    /\ checks.not_product

\* validate_profile, lines 130-166
validate_profile(self, name, profile_text, title, job_title, company) ==
    LET result(relevance, checks) ==
            [is_valid |-> IsValid(relevance.score, checks),
             score |-> relevance.score,
             reason |-> relevance.reason,
             confidence |->
                 Frac(Cardinality({c \in DOMAIN checks : checks[c]}),
                      Cardinality(DOMAIN checks)),
             checks |-> checks]
    IN  result(calculate_relevance_score(self, profile_text, title, job_title, company),
               ProfileChecks(self, name, profile_text))

\* a slip: the division is made whatever keyword_matches is
DividesByZero_Unguarded(keyword_matches, total_terms) == total_terms = 0

\* lines 80-81: keyword_matches / len(self.keyword_terms) is evaluated and
\* its divisor is 0 (the one division by a value that is not a literal)
DividesByZero(keyword_matches, total_terms) ==
    keyword_matches > 0 /\ total_terms = 0

\* calculate_relevance_score raises ZeroDivisionError: none of the returns
\* of lines 48-74 is taken and the division of line 81 divides by 0
ScoreRaises(self, profile_text, title, job_title, company) ==
    LET reached(combined_text) ==
            /\ CountIn(combined_text, IRRELEVANT_TERMS) < 2
            /\ ~ContainsAny(combined_text, PRODUCT_INDICATORS)
            /\ CountIn(combined_text, COMPANY_PAGE_INDICATORS) < 2
            /\ DividesByZero(CountOfSet(combined_text, self.keyword_terms),
                             Cardinality(self.keyword_terms))
    IN  /\ profile_text # <<>>
        /\ reached(CombinedText(profile_text, title, job_title, company))

(***************************************************************************)
(* AdvancedProfileScraper, advanced_scraper.py: EMAIL_REGEX, line 12, is   *)
(*   [\w\.-]+@[\w\.-]+\.\w+                                                *)
(***************************************************************************)
AdvancedClass == WordChars \cup {".", "-"}

\* advanced_scraper.py line 14
EXCLUDED_EMAIL_PATTERNS == <<
    <<"n", "o", "r", "e", "p", "l", "y">>, <<"n", "o", "-", "r", "e", "p", "l", "y">>, <<"d", "o", "n", "o", "t", "r", "e", "p", "l", "y">>, <<"s", "u", "p", "p", "o", "r", "t", "@">>,
    <<"i", "n", "f", "o", "@">>, <<"c", "o", "n", "t", "a", "c", "t", "@">>, <<"a", "d", "m", "i", "n", "@">>, <<"w", "e", "b", "m", "a", "s", "t", "e", "r", "@">>,
    <<"p", "r", "i", "v", "a", "c", "y", "@">>, <<"h", "e", "l", "l", "o", "@">>, <<"m", "a", "i", "l", "e", "r", "-">>, <<"p", "o", "s", "t", "m", "a", "s", "t", "e", "r", "@">> >>

\* the end of the match of EMAIL_REGEX that starts at i, 0 if there is none
\* (greedy: the last dot of the domain run that a word character follows,
\* then the word characters after it)
AdvancedMatchEnd(s, i) ==
    IF i > Len(s) THEN 0
    ELSE IF s[i] \notin AdvancedClass THEN 0
    ELSE LET lastOf(dots) ==
                 IF dots = {} THEN 0 ELSE RunEnd(s, SetMax(dots) + 1, WordChars)
             domain(a) ==
                 IF a > Len(s) THEN 0
                 ELSE IF s[a] # "@" THEN 0
                 ELSE lastOf({d \in (a + 2)..RunEnd(s, a + 1, AdvancedClass) :
                                 /\ s[d] = "."
                                 /\ d < Len(s)
                                 /\ s[d + 1] \in WordChars})
         IN  domain(RunEnd(s, i, AdvancedClass) + 1)

\* EMAIL_REGEX.findall(s)
RECURSIVE AdvancedFindAllFrom(_, _)
AdvancedFindAllFrom(s, i) ==
    IF i > Len(s) THEN <<>>
    ELSE LET next(t) ==
                 IF t > 0 THEN <<SubSeq(s, i, t)>> \o AdvancedFindAllFrom(s, t + 1)
                 ELSE AdvancedFindAllFrom(s, i + 1)
         IN  next(AdvancedMatchEnd(s, i))

AdvancedFindAll(s) == AdvancedFindAllFrom(s, 1)

\* not any(excluded in email.lower() for excluded in EXCLUDED_EMAIL_PATTERNS)
NotExcluded(email) == ~ContainsAny(Lower(email), EXCLUDED_EMAIL_PATTERNS)

\* the lists list(set(...)) can give: the elements in every order
Orderings(S) == {f \in [1..Cardinality(S) -> S] : Range(f) = S}

\* _extract_emails_from_content, lines 114-122: set(emails)
ContentEmails(content) ==
    {e \in Range(AdvancedFindAll(content)) : NotExcluded(e)}

\* _extract_emails_from_content, lines 114-123: list(set(emails)) iterates the
\* set in an order the hash seed of the process fixes, any order may come out
extract_emails_from_content(content) == Orderings(ContentEmails(content))

\* _check_email_intercept, lines 50-76: the emails one API response adds
\* (json.dumps of the body, or the text of the body, is text)
AdvancedIntercepted(text) ==
    {e \in Range(AdvancedFindAll(text)) : NotExcluded(e)}

(***************************************************************************)
(* AdvancedProfileScraper.scrape_profile_email, lines 223-327              *)
(***************************************************************************)
\* _is_profile_specific, lines 125-138
AdvancedIsProfileSpecific(email, profile_name) ==
    /\ profile_name # <<>>
    /\ email # <<>>
    /\ MatchesName(email, profile_name)

\* lines 256-261 for the emails of one section: acc holds all_emails and
\* profile_specific_emails
RECURSIVE AddSectionEmails(_, _, _)
AddSectionEmails(acc, section_emails, profile_name) ==
    IF section_emails = <<>> THEN acc
    ELSE LET add(email) ==
                 IF email \in Range(acc.all_emails) THEN acc
                 ELSE [all_emails |-> Append(acc.all_emails, email),
                       profile_specific_emails |->
                           IF AdvancedIsProfileSpecific(email, profile_name)
                           THEN Append(acc.profile_specific_emails, email)
                           ELSE acc.profile_specific_emails]
         IN  AddSectionEmails(add(Head(section_emails)), Tail(section_emails),
                              profile_name)

\* lines 251-263: the loop over the sections; a section is the list
\* _extract_emails_from_content gave for its text, or raised |-> TRUE when
\* inner_text raised (the section is passed over)
RECURSIVE SectionLoop(_, _, _)
SectionLoop(acc, sections, profile_name) ==
    IF sections = <<>> THEN acc
    ELSE SectionLoop(IF Head(sections).raised THEN acc
                     ELSE AddSectionEmails(acc, Head(sections).emails, profile_name),
                     Tail(sections), profile_name)

\* line 289: set([e.lower().strip() for e in all_emails if e])
UniqueEmails(all_emails) == {Strip(Lower(e)) : e \in all_emails \ {<<>>}}

\* a slip: the excluded patterns are not filtered out
FinalEmails_Unfiltered(unique_emails) == unique_emails

\* lines 292-295
FinalEmails(unique_emails) ==
    SelectSeq(unique_emails, LAMBDA e : ~ContainsAny(e, EXCLUDED_EMAIL_PATTERNS))

\* lines 298-313: the dict returned when nothing raised; error None is <<>>,
\* an error text is a list of one string
ScrapeReturn(final_emails, profile_specific_emails) ==
    LET lowered == [i \in DOMAIN profile_specific_emails |->
                        Strip(Lower(profile_specific_emails[i]))]
        first(profile_specific_clean) ==
            IF profile_specific_emails # <<>> /\ profile_specific_clean # <<>>
            THEN [emails |-> profile_specific_clean \o
                                 SelectSeq(final_emails,
                                     LAMBDA e : e \notin Range(profile_specific_clean)),
                  success |-> Len(profile_specific_clean) > 0,
                  error |-> <<>>]
            ELSE [emails |-> final_emails,
                  success |-> Len(final_emails) > 0,
                  error |-> <<>>]
    IN  first(SelectSeq(lowered, LAMBDA e : e \in Range(final_emails)))

\* scrape_profile_email, lines 223-327: the dicts it can return (one for each
\* order list(set(...)) of line 289 can give).  page holds what the browser
\* gave: raised ("no", "timeout" for PlaywrightTimeout, "error" for any other
\* exception of the outer try), page_content, the sections, the list
\* _extract_from_shadow_dom returned and the page content after the contact
\* modal opened (<<>> when no button was found); the order of content_emails
\* and modal_emails is lost in the set of line 289
scrape_profile_email(self, page, profile_name) ==
    LET returned(found) ==
            {ScrapeReturn(FinalEmails(unique_emails), found.profile_specific_emails) :
                unique_emails \in
                    Orderings(UniqueEmails(Range(found.all_emails)
                                  \cup ContentEmails(page.page_content)
                                  \cup Range(page.shadow_emails)
                                  \cup ContentEmails(page.modal_content)
                                  \cup self.intercepted_emails))}
    IN  IF page.raised = "timeout"
        THEN {[emails |-> <<>>, success |-> FALSE,
               error |-> <<"Timeout loading profile">>]}
        ELSE IF page.raised = "error"
        THEN {[emails |-> <<>>, success |-> FALSE, error |-> <<"str(e)">>]}
        ELSE returned(SectionLoop([all_emails |-> <<>>,
                                   profile_specific_emails |-> <<>>],
                                  page.sections, profile_name))

(***************************************************************************)
(* Config, config.py                                                       *)
(***************************************************************************)
\* Python's None
None == [none |-> TRUE]

\* the dict get_api_keys builds for the default key on every call, lines 52-58
DefaultKeys(self) ==
    IF self.default_api_key # "" /\ self.default_cse_id # ""
    THEN << [api_key |-> self.default_api_key, cse_id |-> self.default_cse_id,
             quota_exceeded |-> FALSE] >>
    ELSE <<>>

\* Config.get_api_keys, lines 47-63: the new dict of the default key, then the
\* dicts of self.multiple_keys themselves
get_api_keys(self) == DefaultKeys(self) \o self.multiple_keys

\* Config.get_available_key, lines 65-71
get_available_key(self) ==
    LET first(keys, open) == IF open = {} THEN None ELSE keys[SetMin(open)]
        search(keys) == first(keys, {i \in DOMAIN keys : ~keys[i].quota_exceeded})
    IN  search(get_api_keys(self))

\* Config.mark_quota_exceeded, lines 73-79: the object after the call. The
\* first dict of get_api_keys() with the api_key gets the flag; when that is
\* the dict built for the default key the list is dropped with the flag,
\* otherwise the dict is the one of self.multiple_keys
mark_quota_exceeded(self, api_key) ==
    LET flag(i) ==
            [self EXCEPT !.multiple_keys[i].quota_exceeded = TRUE]
        first(keys, hits) ==
            IF hits = {} THEN self
            ELSE IF SetMin(hits) <= Len(DefaultKeys(self)) THEN self
            ELSE flag(SetMin(hits) - Len(DefaultKeys(self)))
        search(keys) == first(keys, {i \in DOMAIN keys : keys[i].api_key = api_key})
    IN  search(get_api_keys(self))

(***************************************************************************)
(* The pagination loop of the /scrape route, app.py lines 493-739          *)
(***************************************************************************)
RESULTS_PER_PAGE == 10
max_requests == 10

\* the loop `for item in items`, lines 570-692, with its break of line 572
RECURSIVE ProcessItems(_, _, _)
ProcessItems(rows, items, req) ==
    IF items = <<>> \/ Len(rows) >= req.limit THEN rows
    ELSE ProcessItems(AfterItem(rows, Head(items), req), Tail(items), req)

\* what the route answers after the loop, lines 719-739 (the file of the
\* export is left out)
RouteAnswer(rows, req) ==
    IF FinalResults(rows, req) = <<>>
    THEN [status |-> 404, error |-> "No results found"]
    ELSE [status |-> 200, error |-> ""]

(***************************************************************************)
(* State                                                                   *)
(***************************************************************************)
VARIABLES
    entry,               \* the entry point a behaviour exercises
    phase,               \* the position inside that entry point
    results,             \* the batch of result rows being collected
    unique_results,      \* what deduplicate_results returned
    again,               \* deduplicate_results applied to its own output
    x,                   \* the arguments of the call or the form of the request
    email_out,           \* what extract_email returned
    intercepted_emails,  \* DirectWebScraper.intercepted_emails
    detailed_results,    \* detailed_results of DirectWebScraper.scrape_profiles
    prof,                \* the profile extract_profile_data worked on last
    validator,           \* the KeywordRelevanceValidator object
    ret,                 \* what the call of a function of one result returned
    config               \* the global Config object of config.py

vars == <<entry, phase, results, unique_results, again, x, email_out,
          intercepted_emails, detailed_results, prof, validator, ret,
          config>>

NoInput == [none |-> TRUE]

(***************************************************************************)
(* Bounds and input values                                                 *)
(***************************************************************************)
\* the longest batch handed to deduplicate_results
MaxBatch == 3

\* profile URLs and raw emails of the rows of a batch
BatchUrls == {<<>>, <<"A">>, <<"B">>}
BatchEmails == {<<>>, <<"j", "@", "a", ".", "i", "o">>, <<" ", "J", "@", "A", ".", "i", "o">>, <<"k", "@", "a", ".", "i", "o">>}

(***************************************************************************)
(* deduplicate_results on a collected batch                                *)
(***************************************************************************)
InitDedup ==
    /\ entry = "dedup"
    /\ phase = "collect"
    /\ results = <<>>
    /\ unique_results = <<>>
    /\ again = <<>>
    /\ x = NoInput
    /\ email_out = <<>>
    /\ intercepted_emails = {}
    /\ detailed_results = <<>>
    /\ prof = NoInput
    /\ validator = NoInput
    /\ ret = NoInput
    /\ config = NoInput

\* results.append({...}): the batch grows by one row
AppendResult ==
    /\ entry = "dedup"
    /\ phase = "collect"
    /\ Len(results) < MaxBatch
    /\ \E u \in BatchUrls : \E e \in BatchEmails :
           results' = Append(results, [profile_url |-> u, email |-> e])
    /\ UNCHANGED <<config, entry, phase, unique_results, again, x, email_out,
                   intercepted_emails, detailed_results, prof,
                   validator, ret>>

\* results = deduplicate_results(results), app.py line 719
Deduplicate ==
    /\ entry = "dedup"
    /\ phase = "collect"
    /\ unique_results' = deduplicate_results(results)
    /\ phase' = "deduped"
    /\ UNCHANGED <<config, entry, results, again, x, email_out,
                   intercepted_emails, detailed_results, prof,
                   validator, ret>>

\* deduplicate_results applied to what it returned
DeduplicateAgain ==
    /\ entry = "dedup"
    /\ phase = "deduped"
    /\ again' = deduplicate_results(unique_results)
    /\ phase' = "again"
    /\ UNCHANGED <<config, entry, results, unique_results, x, email_out,
                   intercepted_emails, detailed_results, prof,
                   validator, ret>>

NextDedup == AppendResult \/ Deduplicate \/ DeduplicateAgain

SpecDedup == InitDedup /\ [][NextDedup]_vars

(***************************************************************************)
(* Inputs of the attribution paths                                         *)
(***************************************************************************)
\* the largest limit of a /scrape request
MaxLimit == 2
\* the largest max_results of DirectWebScraper.scrape_profiles
MaxProfiles == 2

Names == {<<>>, <<"A", "n", "n", " ", "L", "e", "e">>, <<"L", "i", " ", "W", "u">>}

Texts == {
    <<>>,
    <<"a", "n", "n", "@", "a", "b", ".", "i", "o">>,
    <<"z", "e", "d", "@", "c", "d", ".", "i", "o">>,
    <<"I", "n", "f", "o", "@", "a", "b", ".", "i", "o">>,
    <<"I", "n", "f", "o", "@", "a", "b", ".", "i", "o", " ", "z", "e", "d", "@", "c", "d", ".", "i", "o">>,
    <<"d", "e", "v", " ", "a", "t", " ", "A", "c", "m", "e">>,
    <<"z", "e", "d", "@", "a", "c", "m", "e", ".", "i", "o", " ", "a", "n", "n", "@", "c", "d", ".", "i", "o", " ", "d", "e", "v", " ", "a", "t", " ", "A", "c", "m", "e">> }

Urls == {<<>>, <<"x", ".", "i", "o", "/", "u", "/", "z", "e", "d", "@", "e", "f", ".", "i", "o">>}

ProfileUrls == {<<>>, <<"h", "t", "t", "p", "s", ":", "/", "/", "g", "i", "t", "h", "u", "b", ".", "c", "o", "m", "/", "a", "n", "n">>}

Companies == {<<>>, <<"A", "c", "m", "e", " ", "C", "o", "r", "p">>}

\* what requests.get gives for the profile page
Responses == {
    [ok |-> FALSE, text |-> <<>>],
    [ok |-> TRUE, text |-> <<"<", "a", ">", "a", ".", "l", "e", "e", "@", "c", "d", ".", "i", "o", "<", "/", "a", ">">>],
    [ok |-> TRUE, text |-> <<"s", "a", "l", "e", "s", "@", "a", "b", ".", "i", "o", " ", "b", "o", "b", "@", "c", "d", ".", "i", "o">>],
    [ok |-> TRUE, text |-> <<"I", "n", "f", "o", "@", "a", "b", ".", "i", "o">>] }

\* the items of a search response
Titles == {<<"A", "n", "n", " ", "L", "e", "e", " ", "-", " ", "D", "e", "v", " ", "|", " ", "H", "u", "b">>, <<"L", "i", " ", "W", "u">>, <<"A", "c", "m", "e", " ", "I", "n", "c", ".">>}
Links == {<<>>, <<"h", "t", "t", "p", "s", ":", "/", "/", "g", "i", "t", "h", "u", "b", ".", "c", "o", "m", "/", "a", "n", "n">>}
Snippets == {
    <<"z", "e", "d", "@", "c", "d", ".", "i", "o">>,
    <<"I", "n", "f", "o", "@", "a", "b", ".", "i", "o", " ", "a", "n", "n", "@", "a", "b", ".", "i", "o">>,
    <<"m", "a", "i", "l", ":", " ", "i", "n", "f", "o", "@", "e", "f", ".", "i", "o", "9", " ", "r", "e", "a", "c", "h", ":", " ", "z", "e", "d", "@", "e", "f", ".", "i", "o", "9">>,
    <<"d", "e", "v", " ", "a", "t", " ", "A", "c", "m", "e">> }
ItemResponses == {
    [ok |-> FALSE, text |-> <<>>],
    [ok |-> TRUE, text |-> <<"I", "n", "f", "o", "@", "a", "b", ".", "i", "o">>] }
\* what advanced_scraper.scrape_profile_email gives
AdvancedResults == {
    [raised |-> TRUE, success |-> FALSE, emails |-> <<>>],
    [raised |-> FALSE, success |-> TRUE,
     emails |-> << <<"S", "a", "l", "e", "s", "@", "a", "b", ".", "i", "o">>, <<"w", "@", "e", "f", ".", "i", "o">>, <<"a", "n", "n", ".", "l", "@", "e", "f", ".", "i", "o">> >>] }

Items ==
    [title : Titles, link : Links, snippet : Snippets, resp : ItemResponses,
     adv : AdvancedResults]

\* the URL of the i-th profile of unique_profiles: the list is unique by URL,
\* direct_scraper.py lines 368-378
ProfileUrlOf(i) == <<"h", "t", "t", "p", "s", ":", "/", "/", "g", "i", "t", "h", "u", "b", ".", "c", "o", "m", "/", "u">> \o <<DigitChars[i + 1]>>
\* document.body.innerText of a profile page (shorter than the 200
\* characters the snippet keeps)
PageTexts == {
    <<>>,
    <<"a", "n", "n", "@", "a", "b", ".", "i", "o">>,
    <<"I", "n", "f", "o", "@", "a", "b", ".", "i", "o", " ", "z", "e", "d", "@", "c", "d", ".", "i", "o">> }
\* json.dumps of the body of an API response
ApiTexts == {
    <<"{", "\"", "a", "\"", ":", " ", "\"", "S", "a", "l", "e", "s", "@", "a", "b", ".", "i", "o", "\"", ",", " ", "\"", "b", "\"", ":", " ", "\"", "A", "n", "n", ".", "L", "e", "e", "@", "c", "d", ".", "i", "o", "\"", ",", " ", "\"", "c", "\"", ":", " ", "\"", "w", "@", "e", "f", ".", "i", "o", "\"", "}">> }

(***************************************************************************)
(* The attribution paths: extract_email, the /scrape route,                *)
(* DirectWebScraper.scrape_profiles                                        *)
(***************************************************************************)
InitAttribution ==
    /\ entry \in {"extract", "route", "direct"}
    /\ phase = "start"
    /\ x \in CASE entry = "extract" -> {NoInput}
               [] entry = "route" ->
                      [limit : 1..MaxLimit, extract_emails : BOOLEAN,
                       enable_advanced_scraping : BOOLEAN]
               [] entry = "direct" ->
                      [extract_emails : BOOLEAN, max_results : 1..MaxProfiles,
                       i : {0}, fresh : {{}}]
    /\ results = <<>>
    /\ unique_results = <<>>
    /\ again = <<>>
    /\ email_out = <<>>
    /\ intercepted_emails = {}
    /\ detailed_results = <<>>
    /\ prof = NoInput
    /\ validator = NoInput
    /\ ret = NoInput
    /\ config = NoInput

\* a call of extract_email(text, url, name, company, profile_url)
ExtractEmail ==
    /\ entry = "extract"
    /\ phase = "start"
    /\ \E text \in Texts : \E url \in Urls : \E name \in Names :
       \E company \in Companies : \E profile_url \in ProfileUrls :
       \E resp \in Responses :
           /\ x' = [text |-> text, url |-> url, name |-> name, company |-> company,
                    profile_url |-> profile_url, resp |-> resp]
           /\ email_out' = extract_email(text, url, name, company, profile_url, resp)
    /\ phase' = "returned"
    /\ UNCHANGED <<config, entry, results, unique_results, again, intercepted_emails,
                   detailed_results, prof,
                   validator, ret>>

\* one pass of the body of `for item in items`, app.py lines 570-692
ProcessItem ==
    /\ entry = "route"
    /\ phase = "start"
    /\ Len(results) < x.limit
    /\ \E it \in Items : results' = AfterItem(results, it, x)
    /\ UNCHANGED <<config, entry, phase, unique_results, again, x, email_out,
                   intercepted_emails, detailed_results, prof,
                   validator, ret>>

\* the search gave no more items or the limit is reached: lines 719-727
FinishRoute ==
    /\ entry = "route"
    /\ phase = "start"
    /\ unique_results' = FinalResults(results, x)
    /\ phase' = "returned"
    /\ UNCHANGED <<config, entry, results, again, x, email_out, intercepted_emails,
                   detailed_results, prof,
                   validator, ret>>

\* the page.on("response") callback _intercept_emails for one response that
\* passes its URL and status tests; fresh records what the callback captured
\* since extract_profile_data last returned
InterceptEmails ==
    /\ entry = "direct"
    /\ \E text \in ApiTexts :
           /\ intercepted_emails' = intercepted_emails \cup InterceptedFrom(text)
           /\ x' = [x EXCEPT !.fresh = @ \cup InterceptedFrom(text)]
    /\ UNCHANGED <<config, entry, phase, results, unique_results, again, email_out,
                   detailed_results, prof,
                   validator, ret>>

\* one pass of the loop of scrape_profiles over unique_profiles[:max_results],
\* lines 383-446; i counts the profiles worked on, the responses captured
\* since the profile before it was finished arrived during its page load
ExtractProfile ==
    /\ entry = "direct"
    /\ x.i < x.max_results
    /\ \E name \in Names : \E text_content \in PageTexts : \E failed \in BOOLEAN :
       \E is_valid \in BOOLEAN :
       \E email \in ProfileEmails(text_content, name, intercepted_emails) :
           LET p == [name |-> name, profile_url |-> ProfileUrlOf(x.i + 1)]
               page == [text_content |-> text_content, failed |-> failed]
               data == ProfileData(p, page, email)
           IN  /\ prof' = [name |-> p.name, text_content |-> text_content,
                               failed |-> failed,
                               intercepted |-> intercepted_emails,
                               fresh |-> x.fresh,
                               email |-> data.email]
                   /\ detailed_results' =
                          IF DirectKept(data, is_valid, x.extract_emails)
                          THEN Append(detailed_results, data)
                          ELSE detailed_results
    /\ x' = [x EXCEPT !.i = @ + 1, !.fresh = {}]
    /\ UNCHANGED <<config, entry, phase, results, unique_results, again, email_out,
                   intercepted_emails,
                   validator, ret>>

NextAttribution ==
    \/ ExtractEmail
    \/ ProcessItem
    \/ FinishRoute
    \/ InterceptEmails
    \/ ExtractProfile

SpecAttribution == InitAttribution /\ [][NextAttribution]_vars

(***************************************************************************)
(* KeywordRelevanceValidator on one profile                                *)
(***************************************************************************)
\* the keyword lists a validator is built from
KeywordLists == {
    <<>>,
    << <<"R", "F", "I", "D">>, <<"e", "n", "g", "i", "n", "e", "e", "r">> >>,
    << <<" ", "T", "h", "e", " ", "C", "l", "o", "u", "d", "-", "S", "e", "c", "u", "r", "i", "t", "y", " ">>, <<" ", " ">> >>,
    << <<"D", "a", "t", "a", ",", " ", "M", "L">> >>,
    << <<"t", "h", "e", " ", "A", "I", ",", " ", "o", "f", "-", "i", "t">>, <<"M", "L">> >> }

ProfileNames == {<<>>, UNKNOWN, <<"L", "i">>, <<"A", "n", "n", " ", "L", "e", "e">>}

ProfileTexts == {
    <<>>,
    <<"S", "e", "n", "i", "o", "r", " ", "R", "F", "I", "D", " ", "E", "n", "g", "i", "n", "e", "e", "r", " ", "a", "t", " ", "A", "c", "m", "e", " ", "C", "o", "r", "p", ",", " ", "8", " ", "y", "e", "a", "r", "s", " ", "e", "x", "p", "e", "r", "i", "e", "n", "c", "e">>,
    <<"B", "u", "y", " ", "o", "u", "r", " ", "R", "F", "I", "D", " ", "b", "l", "o", "c", "k", "i", "n", "g", " ", "w", "a", "l", "l", "e", "t", " ", "n", "o", "w", ",", " ", "2", "0", "%", " ", "o", "f", "f", ",", " ", "a", "d", "d", " ", "t", "o", " ", "c", "a", "r", "t">>,
    <<"R", "F", "I", "D", " ", "s", "c", "a", "n", "n", "e", "r", " ", "r", "e", "a", "d", "e", "r", " ", "e", "n", "g", "i", "n", "e", "e", "r">>,
    <<"R", "F", "I", "D", " ", "s", "t", "o", "r", "e">>,
    <<"A", "b", "o", "u", "t", " ", "u", "s", ":", " ", "o", "u", "r", " ", "t", "e", "a", "m", " ", "o", "f", " ", "R", "F", "I", "D", " ", "e", "n", "g", "i", "n", "e", "e", "r", "s", ",", " ", "c", "a", "r", "e", "e", "r", "s">>,
    <<"R", "F", "I", "D", " ", "e", "n", "g", "i", "n", "e", "e", "r", ",", " ", "j", "o", "i", "n", " ", "o", "u", "r", " ", "t", "e", "a", "m">>,
    <<"R", "F", "I", "D", " ", "t", "a", "g", "s", ",", " ", "c", "o", "n", "t", "a", "c", "t", " ", "u", "s">>,
    <<"S", "e", "n", "i", "o", "r", " ", "m", "a", "n", "a", "g", "e", "r", ",", " ", "8", " ", "y", "e", "a", "r", "s", " ", "e", "x", "p", "e", "r", "i", "e", "n", "c", "e", ",", " ", "d", "e", "g", "r", "e", "e", ",", " ", "l", "e", "a", "d">>,
    <<"c", "l", "o", "u", "d", " ", "s", "e", "c", "u", "r", "i", "t", "y", " ", "a", "r", "c", "h", "i", "t", "e", "c", "t">> }

PageTitles == {<<>>, <<"S", "h", "o", "p">>}
JobTitles == {<<>>, <<"R", "F", "I", "D", " ", "E", "n", "g", "i", "n", "e", "e", "r">>}
CompanyNames == {<<>>, <<"R", "F", "I", "D", " ", "L", "a", "b", "s">>}

InitRelevance ==
    /\ entry = "validate"
    /\ phase = "start"
    /\ results = <<>>
    /\ unique_results = <<>>
    /\ again = <<>>
    /\ x = NoInput
    /\ email_out = <<>>
    /\ intercepted_emails = {}
    /\ detailed_results = <<>>
    /\ prof = NoInput
    /\ validator = NoInput
    /\ ret = NoInput
    /\ config = NoInput

\* KeywordRelevanceValidator(keywords)
Construct ==
    /\ entry = "validate"
    /\ phase = "start"
    /\ \E keywords \in KeywordLists : validator' = NewValidator(keywords)
    /\ phase' = "ready"
    /\ UNCHANGED <<config, entry, results, unique_results, again, x, email_out,
                   intercepted_emails, detailed_results, prof, ret>>

\* validator.calculate_relevance_score(profile_text, title, job_title, company)
CalculateRelevanceScore ==
    /\ entry = "validate"
    /\ phase = "ready"
    /\ \E profile_text \in ProfileTexts : \E title \in PageTitles :
       \E job_title \in JobTitles : \E company \in CompanyNames :
           /\ x' = [name |-> <<>>, profile_text |-> profile_text, title |-> title,
                    job_title |-> job_title, company |-> company]
           /\ IF ScoreRaises(validator, profile_text, title, job_title, company)
              THEN phase' = "raised" /\ ret' = NoInput
              ELSE /\ phase' = "scored"
                   /\ ret' = calculate_relevance_score(validator, profile_text,
                                                       title, job_title, company)
    /\ UNCHANGED <<config, entry, results, unique_results, again, email_out,
                   intercepted_emails, detailed_results, prof, validator>>

\* validator.validate_profile(name, profile_text, title, job_title, company)
ValidateProfile ==
    /\ entry = "validate"
    /\ phase = "ready"
    /\ \E name \in ProfileNames : \E profile_text \in ProfileTexts :
       \E title \in PageTitles : \E job_title \in JobTitles :
       \E company \in CompanyNames :
           /\ x' = [name |-> name, profile_text |-> profile_text, title |-> title,
                    job_title |-> job_title, company |-> company]
           /\ IF ScoreRaises(validator, profile_text, title, job_title, company)
              THEN phase' = "raised" /\ ret' = NoInput
              ELSE /\ phase' = "validated"
                   /\ ret' = validate_profile(validator, name, profile_text,
                                              title, job_title, company)
    /\ UNCHANGED <<config, entry, results, unique_results, again, email_out,
                   intercepted_emails, detailed_results, prof, validator>>

NextRelevance == Construct \/ CalculateRelevanceScore \/ ValidateProfile

SpecRelevance == InitRelevance /\ [][NextRelevance]_vars

(***************************************************************************)
(* Candidates: is_profile_specific_email of app.py and the extractor of    *)
(* AdvancedProfileScraper                                                  *)
(***************************************************************************)
CandidateEmails == {
    <<"a", "n", "n", "@", "c", "d", ".", "i", "o">>,
    <<"a", "c", "m", "e", "@", "c", "d", ".", "i", "o">>,
    <<"z", "e", "d", "@", "A", "c", "m", "e", ".", "i", "o">>,
    <<"z", "e", "d", "@", "c", "d", ".", "i", "o">> }

ContextTexts == {<<>>, <<"d", "e", "v", " ", "a", "t", " ", "A", "c", "m", "e">>, <<"d", "e", "v", " ", "a", "t", " ", "A", "c", "m", "e", " ", "C", "o", "r", "p", ".">>, <<"a", " ", "d", "e", "v">>}

\* page.content() or the inner text of a section
Contents == {
    <<>>,
    <<"m", "a", "i", "l", " ", "A", "n", "n", "@", "a", "b", ".", "i", "o">>,
    <<"A", "n", "n", "@", "a", "b", ".", "i", "o", " ", "a", "n", "n", "@", "a", "b", ".", "i", "o">>,
    <<"<", "a", ">", "z", "e", "d", "@", "c", "d", ".", "i", "o", "<", "/", "a", ">", " ", "I", "n", "f", "o", "@", "a", "b", ".", "i", "o", " ", "z", "e", "d", "@", "c", "d", ".", "i", "o">>,
    <<"w", "_", "1", "@", "e", "f", ".", "i", "o", ",", " ", "z", "e", "d", "@", "c", "d", ".", "i", "o", ".", " ", "A", "N", "N", "@", "A", "B", ".", "I", "O", "-", "a", "n", "n", "@", "a", "b", ".", "i", "o">> }

\* the body of an API response, as text
AdvancedApiTexts == {
    <<"{", "\"", "a", "\"", ":", " ", "\"", "A", "n", "n", "@", "a", "b", ".", "i", "o", "\"", "}">>,
    <<"{", "\"", "a", "\"", ":", " ", "\"", "a", "n", "n", "@", "a", "b", ".", "i", "o", "\"", ",", " ", "\"", "b", "\"", ":", " ", "\"", "s", "u", "p", "p", "o", "r", "t", "@", "a", "b", ".", "i", "o", "\"", "}">>,
    <<"{", "\"", "c", "\"", ":", " ", "\"", "w", "@", "e", "f", ".", "i", "o", "\"", "}">> }

\* the texts of the profile sections of a page: inner_text of each, or raised
SectionTexts == {
    <<>>,
    << [raised |-> TRUE, text |-> <<>>],
       [raised |-> FALSE, text |-> <<"A", "n", "n", "@", "a", "b", ".", "i", "o", " ", "w", "@", "e", "f", ".", "i", "o">>] >>,
    << [raised |-> FALSE, text |-> <<"h", "e", "l", "l", "o", "@", "a", "b", ".", "i", "o">>] >> }

\* what the shadow-DOM script returned
ShadowEmails == {<<>>, << <<"i", "n", "f", "o", "@", "s", "h", ".", "i", "o">>, <<"l", "i", "@", "s", "h", ".", "i", "o">> >>}

\* the page content after the contact modal opened
ModalContents == {<<>>, <<"A", "n", "n", "@", "a", "b", ".", "i", "o">>}

\* the pages scrape_profile_email is run on
ScrapedPages ==
    [raised : {"no"}, page_content : {<<>>, <<"<", "a", ">", "z", "e", "d", "@", "c", "d", ".", "i", "o", "<", "/", "a", ">", " ", "I", "n", "f", "o", "@", "a", "b", ".", "i", "o">>},
     sections : SectionTexts,
     shadow_emails : ShadowEmails, modal_content : ModalContents]
        \cup [raised : {"timeout", "error"}, page_content : {<<>>},
              sections : {<<>>}, shadow_emails : {<<>>}, modal_content : {<<>>}]

InitCandidates ==
    /\ entry = "candidates"
    /\ phase = "start"
    /\ results = <<>>
    /\ unique_results = <<>>
    /\ again = <<>>
    /\ x = NoInput
    /\ email_out = <<>>
    /\ intercepted_emails = {}
    /\ detailed_results = <<>>
    /\ prof = NoInput
    /\ validator = NoInput
    /\ ret = NoInput
    /\ config = NoInput

\* a call of is_profile_specific_email(email, name, profile_text)
IsProfileSpecificEmail ==
    /\ entry = "candidates"
    /\ phase = "start"
    /\ \E email \in CandidateEmails : \E name \in Names :
       \E profile_text \in ContextTexts :
           /\ x' = [email |-> email, name |-> name, profile_text |-> profile_text]
           /\ ret' = is_profile_specific_email(email, name, profile_text)
    /\ phase' = "specific"
    /\ UNCHANGED <<config, entry, results, unique_results, again, email_out,
                   intercepted_emails, detailed_results, prof, validator>>

\* the page.on("response") callback _check_email_intercept for one response
\* that passes its URL and status tests
CheckEmailIntercept ==
    /\ entry = "candidates"
    /\ \E text \in AdvancedApiTexts :
           intercepted_emails' = intercepted_emails \cup AdvancedIntercepted(text)
    /\ UNCHANGED <<config, entry, phase, results, unique_results, again, x, email_out,
                   detailed_results, prof, validator, ret>>

\* a call of _extract_emails_from_content(content)
ExtractEmailsFromContent ==
    /\ entry = "candidates"
    /\ phase = "start"
    /\ \E content \in Contents :
           /\ x' = [content |-> content]
           /\ ret' \in extract_emails_from_content(content)
    /\ phase' = "extracted"
    /\ UNCHANGED <<config, entry, results, unique_results, again, email_out,
                   intercepted_emails, detailed_results, prof, validator>>

\* a call of scrape_profile_email(profile_url, profile_name): each section
\* gives its emails in one of the orders _extract_emails_from_content can
\* return
ScrapeProfileEmail ==
    /\ entry = "candidates"
    /\ phase = "start"
    /\ \E page \in ScrapedPages : \E profile_name \in {<<>>, <<"A", "n", "n", " ", "L", "e", "e">>} :
       \E section_emails \in
              [DOMAIN page.sections ->
                  UNION {extract_emails_from_content(page.sections[i].text) :
                             i \in DOMAIN page.sections}] :
           /\ \A i \in DOMAIN page.sections :
                  section_emails[i] \in
                      extract_emails_from_content(page.sections[i].text)
           /\ x' = [page |-> page, profile_name |-> profile_name]
           /\ ret' \in scrape_profile_email(
                            [intercepted_emails |-> intercepted_emails],
                            [page EXCEPT !.sections =
                                 [i \in DOMAIN page.sections |->
                                     [raised |-> page.sections[i].raised,
                                      emails |-> section_emails[i]]]],
                            profile_name)
    /\ phase' = "scraped"
    /\ UNCHANGED <<config, entry, results, unique_results, again, email_out,
                   intercepted_emails, detailed_results, prof, validator>>

NextCandidates ==
    \/ IsProfileSpecificEmail
    \/ CheckEmailIntercept
    \/ ExtractEmailsFromContent
    \/ ScrapeProfileEmail

SpecCandidates == InitCandidates /\ [][NextCandidates]_vars

(***************************************************************************)
(* Key rotation: the Config object and the pagination loop of /scrape      *)
(***************************************************************************)
\* the configurations of config.env: GOOGLE_API_KEY with GOOGLE_CSE_ID, and
\* MULTIPLE_API_KEYS (_parse_multiple_keys, lines 28-45)
ParsedKey(api_key) ==
    [api_key |-> api_key, cse_id |-> "cx", quota_exceeded |-> FALSE]
Configs ==
    [default_api_key : {"", "K0"}, default_cse_id : {"cx"},
     multiple_keys : {<<>>, <<ParsedKey("K1")>>,
                      <<ParsedKey("K1"), ParsedKey("K2")>>}]

\* the api_key values of the configured keys
ConfiguredKeys(self) ==
    {get_api_keys(self)[i].api_key : i \in DOMAIN get_api_keys(self)}

\* what the search API answers: every request hits the quota, every item is
\* one the loop passes over, or anything
ApiModes == {"quota", "filtered", "any"}

\* an item of a person, one the loop keeps
KeptItem ==
    [title |-> <<"A", "n", "n", " ", "L", "e", "e", " ", "-", " ", "D", "e", "v", " ", "|", " ", "H", "u", "b">>, link |-> <<"h", "t", "t", "p", "s", ":", "/", "/", "g", "i", "t", "h", "u", "b", ".", "c", "o", "m", "/", "a", "n", "n">>,
     snippet |-> <<"I", "n", "f", "o", "@", "a", "b", ".", "i", "o", " ", "a", "n", "n", "@", "a", "b", ".", "i", "o">>,
     resp |-> [ok |-> FALSE, text |-> <<>>],
     adv |-> [raised |-> TRUE, success |-> FALSE, emails |-> <<>>]]
\* an item whose name looks like a company, lines 599-603
FilteredItem == [KeptItem EXCEPT !.title = <<"A", "c", "m", "e", " ", "I", "n", "c", ".">>]
\* an item without title and link, lines 580-582
BlankItem == [KeptItem EXCEPT !.title = <<>>, !.link = <<>>]

\* requests.get(...).json() or the exception of the request
Answers(api) ==
    CASE api = "quota" -> {[kind |-> "quota", items |-> <<>>]}
      [] api = "filtered" -> {[kind |-> "items", items |-> <<BlankItem>>]}
      [] OTHER ->
             {[kind |-> "quota", items |-> <<>>],
              [kind |-> "error", items |-> <<>>],
              [kind |-> "exception", items |-> <<>>],
              [kind |-> "items", items |-> <<>>],
              [kind |-> "items", items |-> <<FilteredItem>>],
              [kind |-> "items", items |-> <<KeptItem, FilteredItem>>]}

InitRotation ==
    /\ entry \in {"config", "scrape"}
    /\ phase = "start"
    /\ config \in Configs
    /\ x = IF entry = "config" THEN [marked |-> {}] ELSE NoInput
    /\ results = <<>>
    /\ unique_results = <<>>
    /\ again = <<>>
    /\ email_out = <<>>
    /\ intercepted_emails = {}
    /\ detailed_results = <<>>
    /\ prof = NoInput
    /\ validator = NoInput
    /\ ret = NoInput

\* config.mark_quota_exceeded(k) for a configured key; marked records the
\* keys the method was called for
MarkQuotaExceeded ==
    /\ entry = "config"
    /\ \E k \in ConfiguredKeys(config) :
           /\ config' = mark_quota_exceeded(config, k)
           /\ x' = [marked |-> x.marked \cup {k}]
    /\ phase' = "marked"
    /\ UNCHANGED <<entry, results, unique_results, again, email_out,
                   intercepted_emails, detailed_results, prof, validator, ret>>

\* config.get_available_key()
GetAvailableKey ==
    /\ entry = "config"
    /\ ret' = get_available_key(config)
    /\ phase' = "got"
    /\ UNCHANGED <<config, entry, results, unique_results, again, x, email_out,
                   intercepted_emails, detailed_results, prof, validator>>

\* the route returns a response with the status and the error text
Return(status, error, req) ==
    /\ phase' = "returned"
    /\ ret' = [status |-> status, error |-> error]
    /\ x' = req
    /\ UNCHANGED <<config, results, unique_results>>

\* the loop is left by break or by its condition: lines 710-739
LeaveLoop(rows, req) ==
    /\ phase' = "returned"
    /\ results' = rows
    /\ unique_results' = FinalResults(rows, req)
    /\ ret' = RouteAnswer(rows, req)
    /\ x' = req
    /\ UNCHANGED config

\* control goes back to the head of the while loop, line 507
NextIteration(rows, req, self) ==
    /\ phase' = "top"
    /\ results' = rows
    /\ x' = req
    /\ config' = self
    /\ UNCHANGED <<unique_results, ret>>

\* the start of the route, lines 440-505: the credentials, the form, the
\* locals of the loop and the pool of keys
StartScrape ==
    /\ entry = "scrape"
    /\ phase = "start"
    /\ \E limit \in 1..MaxLimit : \E extract_emails \in BOOLEAN :
       \E enable_key_rotation \in BOOLEAN : \E use_saved_creds \in BOOLEAN :
       \E api \in ApiModes :
           LET form(api_key) ==
                   [limit |-> limit, extract_emails |-> extract_emails,
                    enable_advanced_scraping |-> FALSE,
                    enable_key_rotation |-> enable_key_rotation,
                    use_saved_creds |-> use_saved_creds, api |-> api,
                    api_key |-> api_key,
                    api_keys_pool |->
                        IF enable_key_rotation THEN get_api_keys(config) ELSE <<>>,
                    start |-> 1, total_requests |-> 0,
                    items |-> <<>>, looped |-> TRUE, rotated_from |-> ""]
           IN  IF use_saved_creds /\ get_available_key(config) = None
               THEN Return(400, "No available API keys found in config", form(""))
               ELSE NextIteration(<<>>,
                        form(IF use_saved_creds
                             THEN get_available_key(config).api_key
                             ELSE "KF"),
                        config)
    /\ UNCHANGED <<entry, again, email_out, intercepted_emails,
                   detailed_results, prof, validator>>

\* the head of the loop up to the request, lines 507-530: the condition of
\* the while, the key of this request, requests.get is called
LoopTop ==
    /\ entry = "scrape"
    /\ phase = "top"
    /\ IF ~(Len(results) < x.limit /\ x.total_requests < max_requests)
       THEN LeaveLoop(results, x)
       ELSE IF x.enable_key_rotation /\ x.api_keys_pool # <<>>
       THEN IF get_available_key(config) = None
            THEN IF Len(results) > 0
                 THEN LeaveLoop(results, x)
                 ELSE Return(429, "All API keys have exceeded quota", x)
            ELSE /\ phase' = "request"
                 /\ x' = [x EXCEPT !.api_key = get_available_key(config).api_key]
                 /\ UNCHANGED <<config, results, unique_results, ret>>
       ELSE /\ phase' = "request"
            /\ UNCHANGED <<config, results, unique_results, ret, x>>
    /\ UNCHANGED <<entry, again, email_out, intercepted_emails,
                   detailed_results, prof, validator>>

\* the request is answered, lines 530-708: the rest of the pass of the loop
Respond ==
    /\ entry = "scrape"
    /\ phase = "request"
    /\ \E data \in Answers(x.api) :
           LET fetched == [x EXCEPT !.items = data.items, !.looped = FALSE,
                                    !.total_requests = @ + 1,
                                    !.rotated_from = ""]
               looped(rows) ==
                   IF Len(rows) >= x.limit
                   THEN LeaveLoop(rows, [fetched EXCEPT !.looped = TRUE])
                   ELSE NextIteration(rows,
                            [fetched EXCEPT !.looped = TRUE,
                                            !.start = @ + RESULTS_PER_PAGE],
                            config)
           IN  CASE data.kind = "exception" ->
                        Return(500, "Request failed", [x EXCEPT !.rotated_from = ""])
                 [] data.kind = "error" ->
                        Return(400, "Google API Error", [x EXCEPT !.rotated_from = ""])
                 [] data.kind = "quota" ->
                        IF x.enable_key_rotation /\ x.api_keys_pool # <<>>
                        THEN NextIteration(results,
                                 [x EXCEPT !.start = 1, !.rotated_from = ""],
                                 mark_quota_exceeded(config, x.api_key))
                        ELSE Return(429, "API Quota Exceeded",
                                    [x EXCEPT !.rotated_from = ""])
                 [] OTHER ->
                        IF data.items = <<>>
                        THEN LeaveLoop(results, [x EXCEPT !.items = <<>>,
                                                          !.looped = TRUE,
                                                          !.rotated_from = ""])
                        ELSE IF fetched.total_requests >= max_requests
                        THEN IF /\ x.enable_key_rotation
                                /\ Len(x.api_keys_pool) > 1
                                /\ Len(results) < x.limit
                             THEN NextIteration(results,
                                      [fetched EXCEPT !.start = 1,
                                                      !.total_requests = 0,
                                                      !.rotated_from = x.api_key],
                                      config)
                             ELSE LeaveLoop(results, fetched)
                        ELSE /\ results' = ProcessItems(results, data.items, x)
                             /\ looped(results')
    /\ UNCHANGED <<entry, again, email_out, intercepted_emails,
                   detailed_results, prof, validator>>

NextRotation ==
    \/ MarkQuotaExceeded
    \/ GetAvailableKey
    \/ StartScrape
    \/ LoopTop
    \/ Respond

SpecRotation == InitRotation /\ [][NextRotation]_vars

\* a running request handler goes on, and a request that was sent is
\* answered or raises (timeout=30, line 530)
SpecRotationLive ==
    InitRotation /\ [][NextRotation]_vars /\ WF_vars(LoopTop) /\ WF_vars(Respond)

(***************************************************************************)
(* Properties of deduplicate_results (checked under SpecDedup)             *)
(***************************************************************************)
Deduped == entry = "dedup" /\ phase \in {"deduped", "again"}

\* row i of the batch is kept: the output of the first i rows is longer than
\* the output of the first i - 1 rows
KeptAt(batch, i) ==
    Len(deduplicate_results(SubSeq(batch, 1, i)))
        > Len(deduplicate_results(SubSeq(batch, 1, i - 1)))

\* the URL of row i was registered by a kept earlier row
UrlRegistered(batch, i) ==
    /\ batch[i].profile_url # <<>>
    /\ \E j \in 1..(i - 1) :
           KeptAt(batch, j) /\ batch[j].profile_url = batch[i].profile_url

\* the email of row i was claimed by a kept earlier row with another URL
EmailClaimedElsewhere(batch, i) ==
    /\ DedupEmail(batch[i]) # <<>>
    /\ \E j \in 1..(i - 1) :
           /\ KeptAt(batch, j)
           /\ DedupEmail(batch[j]) = DedupEmail(batch[i])
           /\ batch[j].profile_url # batch[i].profile_url

RECURSIVE IsSubsequence(_, _)
IsSubsequence(u, r) ==
    IF u = <<>> THEN TRUE
    ELSE IF r = <<>> THEN FALSE
    ELSE IF Head(u) = Head(r) THEN IsSubsequence(Tail(u), Tail(r))
    ELSE IsSubsequence(u, Tail(r))

\* C1: the output of deduplicate_results holds no two entries with the same
\* non-empty email (compared lower-cased and trimmed), also when profile_url
\* is empty.
C1_NoDuplicateEmail ==
    Deduped =>
        \A i \in DOMAIN unique_results : \A j \in DOMAIN unique_results :
            (i < j /\ DedupEmail(unique_results[i]) # <<>>)
                => DedupEmail(unique_results[i]) # DedupEmail(unique_results[j])

\* C2: first-seen wins: a kept profile carrying a non-empty email e is the
\* earliest profile of the batch carrying e.
C2_KeptIsEarliestCarrier ==
    Deduped =>
        \A k \in DOMAIN results :
            (KeptAt(results, k) /\ DedupEmail(results[k]) # <<>>)
                => \A i \in 1..(k - 1) : DedupEmail(results[i]) # DedupEmail(results[k])

\* C3: the output holds no two entries with the same non-empty profile_url,
\* and a profile is dropped only if its URL was registered by a kept earlier
\* profile or its email was claimed by a kept earlier profile with a
\* different URL.
C3_UrlUniqueAndDropsJustified ==
    Deduped =>
        /\ \A i \in DOMAIN unique_results : \A j \in DOMAIN unique_results :
               (i < j /\ unique_results[i].profile_url # <<>>)
                   => unique_results[i].profile_url # unique_results[j].profile_url
        /\ \A i \in DOMAIN results :
               ~KeptAt(results, i)
                   => (UrlRegistered(results, i) \/ EmailClaimedElsewhere(results, i))

\* C3 witness: one batch with a row dropped for its URL and a row dropped
\* for its email
C3_Witness ==
    /\ Deduped
    /\ \E i \in DOMAIN results : ~KeptAt(results, i) /\ UrlRegistered(results, i)
    /\ \E i \in DOMAIN results :
           /\ ~KeptAt(results, i)
           /\ ~UrlRegistered(results, i)
           /\ EmailClaimedElsewhere(results, i)

\* C4: deduplicate_results is idempotent: applied to its own output it
\* returns that output, same entries in the same order.
C4_Idempotent ==
    (entry = "dedup" /\ phase = "again") => again = unique_results

\* C4 witness: the second pass ran on an output of several rows from which
\* the first pass had dropped something
C4_Witness ==
    /\ entry = "dedup"
    /\ phase = "again"
    /\ Len(unique_results) >= 2
    /\ Len(unique_results) < Len(results)

\* C5: the output is an order-preserving subsequence of the input, made of
\* unmodified input entries, and the first entry of a non-empty batch is kept.
C5_OrderPreservingSubsequence ==
    Deduped =>
        /\ IsSubsequence(unique_results, results)
        /\ results # <<>> => (unique_results # <<>> /\ Head(unique_results) = Head(results))

\* C5 witness: a row dropped between two kept rows, the kept rows carrying
\* emails that cleaning would change
C5_Witness ==
    /\ Deduped
    /\ Len(results) >= 3
    /\ KeptAt(results, 1) /\ ~KeptAt(results, 2) /\ KeptAt(results, 3)
    /\ DedupEmail(results[3]) # results[3].email

(***************************************************************************)
(* Properties of the attribution paths (checked under SpecAttribution)     *)
(***************************************************************************)
Returned == entry = "extract" /\ phase = "returned"

\* the string holds, case-folded, one of the generic-exclusion substrings
ContainsGenericPattern(email) ==
    \E k \in DOMAIN GENERIC_EMAIL_PATTERNS :
        Contains(Lower(email), GENERIC_EMAIL_PATTERNS[k])

\* the email holds, case-folded, a token of the name longer than 2 characters
CarriesNameToken(email, name) ==
    \E k \in DOMAIN Split(name) :
        Len(Split(name)[k]) > 2 /\ Contains(Lower(email), Lower(Split(name)[k]))

\* C6: no email holding a generic-exclusion pattern is ever attributed: not by
\* extract_email, not in a row of the /scrape route, not in a row of
\* DirectWebScraper.scrape_profiles.
C6_NoGenericAttributed ==
    /\ Returned => ~ContainsGenericPattern(email_out)
    /\ entry = "route" =>
           /\ \A i \in DOMAIN results : ~ContainsGenericPattern(results[i].email)
           /\ \A i \in DOMAIN unique_results :
                  ~ContainsGenericPattern(unique_results[i].email)
    /\ entry = "direct" =>
           \A i \in DOMAIN detailed_results :
               ~ContainsGenericPattern(detailed_results[i].email)

\* C6 witness: extract_email met a generic address in the text and one on the
\* scraped page and returned another address
C6_Witness ==
    /\ Returned
    /\ \E i \in DOMAIN FindAll(x.text) : ContainsGenericPattern(FindAll(x.text)[i])
    /\ ContainsGenericPattern(ScrapedCandidate(x.profile_url, x.resp))
    /\ email_out # <<>>

\* the address is what inference gives for the row
RowEmailInferred(r) ==
    /\ r.email # <<>>
    /\ r.email \in {infer_email_from_name_company(r.name, r.company),
                    infer_email_from_name_company(
                        r.name, extract_company(Join2(r.title, r.snippet)))}

\* C7: in every result row produced with email extraction enabled, a non-empty
\* name means that the email holds a name token longer than 2 characters,
\* unless the email was inferred from name and company; names made of short
\* tokens only are not excepted.  (The exception is taken as wide as it can
\* be: every row whose email equals the inferred address is excepted.)
C7_EmailCarriesNameToken ==
    /\ (entry = "route" /\ x.extract_emails) =>
           \A i \in DOMAIN results :
               results[i].name # <<>> =>
                   \/ CarriesNameToken(results[i].email, results[i].name)
                   \/ RowEmailInferred(results[i])
    /\ (entry = "direct" /\ x.extract_emails) =>
           \A i \in DOMAIN detailed_results :
               detailed_results[i].name # <<>> =>
                   CarriesNameToken(detailed_results[i].email, detailed_results[i].name)

\* the profile-specific addresses among the non-generic ones of a list
SpecificAmong(emails, name, text) ==
    SelectSeq(emails, LAMBDA e : ~ContainsGenericPattern(e)
                                 /\ is_profile_specific_email(e, name, text))

\* C8: when a profile has a profile-specific candidate from the page scrape or
\* a network response (tier 4) and a profile-specific candidate in the page
\* text, the tier-4 candidate is the one selected, by extract_email and by
\* extract_profile_data.
C8_HighestTierSelected ==
    /\ Returned =>
           LET scraped == ScrapedCandidate(x.profile_url, x.resp)
           IN  (/\ SpecificAmong(<<scraped>>, x.name, x.text) # <<>>
                /\ SpecificAmong(FindAll(x.text), x.name, x.text) # <<>>)
                   => email_out = scraped
    /\ (entry = "direct" /\ prof # NoInput) =>
           LET net == {e \in prof.intercepted : CarriesNameToken(e, prof.name)}
           IN  (/\ ~prof.failed
                /\ net # {}
                /\ prof.name # <<>>
                /\ PageTextEmail(prof.text_content, prof.name) # <<>>)
                   => prof.email \in net

\* the non-generic addresses present in the text, in the URL and on the
\* scraped profile page of a call
ObservedCandidates(a) ==
    {e \in Range(FindAll(a.text)) \cup Range(FindAll(a.url))
            \cup (IF /\ a.profile_url # <<>>
                      /\ ContainsAny(Lower(a.profile_url), PROFILE_DOMAINS)
                      /\ a.resp.ok
                   THEN Range(FindAll(a.resp.text)) ELSE {}) :
        ~ContainsGenericPattern(e)}

\* C9: inference is the last resort: extract_email returns an address that was
\* not observed (an inferred one) only when no non-generic candidate at all
\* was found in the text, the URL or the scraped page.
C9_InferenceIsLastResort ==
    (Returned /\ email_out # <<>> /\ email_out \notin ObservedCandidates(x))
        => ObservedCandidates(x) = {}

\* C10: every non-empty email extract_email returns matches the shared email
\* grammar, inferred addresses included.
C10_ReturnedEmailIsWellFormed ==
    Returned => (email_out = <<>> \/ MatchesEmailGrammar(email_out))

(***************************************************************************)
(* Properties of KeywordRelevanceValidator (checked under SpecRelevance)   *)
(***************************************************************************)
Scored == entry = "validate" /\ phase \in {"scored", "validated"}
Validated == entry = "validate" /\ phase = "validated"

\* the combined text of the call recorded in x
CallText == CombinedText(x.profile_text, x.title, x.job_title, x.company)

\* the number of keyword terms of the keyword list kw found in the text
KeywordHits(kw, text) == CountOfSet(text, NewValidator(kw).keyword_terms)

\* one of the three hard rejects applies to the text
HardRejected(text) ==
    \/ CountIn(text, IRRELEVANT_TERMS) >= 2
    \/ ContainsAny(text, PRODUCT_INDICATORS)
    \/ CountIn(text, COMPANY_PAGE_INDICATORS) >= 2

\* C11: validate_profile returns is_valid = true exactly when score >= 0.3,
\* has_name, has_keyword_match and not_product all hold; so is_valid implies
\* score >= 0.3, and is_professional and not_company_page do not gate.
C11_IsValidIffKeyChecks ==
    Validated =>
        /\ ret.is_valid <=> /\ FracLeq(Frac(3, 10), ret.score)
                            /\ ret.checks.has_name
                            /\ ret.checks.has_keyword_match
                            /\ ret.checks.not_product
        /\ ret.is_valid => FracLeq(Frac(3, 10), ret.score)

\* C11 witness: a valid profile that fails both is_professional and
\* not_company_page
C11_Witness ==
    /\ Validated
    /\ ret.is_valid
    /\ ~ret.checks.is_professional
    /\ ~ret.checks.not_company_page

\* C12: the score calculate_relevance_score returns, and the one
\* validate_profile stores, lies in [0, 1] for every keyword list and every
\* profile text, title, job title and company.
C12_ScoreInUnitInterval ==
    /\ Scored =>
           /\ ret.score.den > 0
           /\ FracLeq(Frac(0, 1), ret.score)
           /\ FracLeq(ret.score, Frac(1, 1))
    /\ Validated =>
           ret.score = calculate_relevance_score(validator, x.profile_text, x.title,
                                                 x.job_title, x.company).score

\* C12 witness: every part of the sum is at its cap, the score is 1
C12_Witness ==
    /\ Scored
    /\ CountIn(CallText, PROFESSIONAL_TERMS) > 5
    /\ ret.score = Frac(1, 1)

\* C13: when the combined text holds at least 2 terms of the irrelevant
\* vocabulary, or one product indicator, or at least 2 company-page phrases,
\* the score is 0 whatever the keyword and professional matches are, and
\* validate_profile returns is_valid = false.
C13_HardRejectsScoreZero ==
    (Scored /\ HardRejected(CallText)) =>
        /\ ret.score = Frac(0, 1)
        /\ Validated => ~ret.is_valid

\* C13 witness: a named profile whose text matches keywords and professional
\* terms and holds no term of the not_product check, rejected because of two
\* irrelevant terms and no product indicator
C13_Witness ==
    /\ Validated
    /\ CountIn(CallText, IRRELEVANT_TERMS) = 2
    /\ ~ContainsAny(CallText, PRODUCT_INDICATORS)
    /\ CountOfSet(CallText, validator.keyword_terms) > 0
    /\ CountIn(CallText, PROFESSIONAL_TERMS) > 0
    /\ ret.checks.has_name /\ ret.checks.has_keyword_match /\ ret.checks.not_product
    /\ ~ret.is_valid

\* the score of the formula of C14 for k of K keyword terms found, p
\* professional terms found, and the two binary matches; the keyword part is
\* 0 when no term is found (also for K = 0)
FormulaScore(k, K, p, job, company) ==
    LET clamp(s) == IF FracLess(Frac(1, 1), s) THEN Frac(1, 1) ELSE s
        keywordPart ==
            IF k = 0 THEN Frac(0, 1)
            ELSE FracMul(IF k > K THEN Frac(1, 1) ELSE Frac(k, K), Frac(4, 10))
        professionalPart ==
            FracMul(IF p > 5 THEN Frac(1, 1) ELSE Frac(p, 5), Frac(3, 10))
        jobPart == IF job THEN Frac(2, 10) ELSE Frac(0, 1)
        companyPart == IF company THEN Frac(1, 10) ELSE Frac(0, 1)
    IN  clamp(FracMul(IF k = 0 THEN Frac(3, 10) ELSE Frac(1, 1),
                      FracAdd(FracAdd(keywordPart, professionalPart),
                              FracAdd(jobPart, companyPart))))

\* C14: for a non-empty profile text without a hard reject the score is
\* min(1, f * (min(k/K, 1) * 0.4 + min(p/5, 1) * 0.3 + 0.2 * [a keyword term
\* occurs in the job title] + 0.1 * [a keyword term occurs in the company])),
\* with f = 0.3 if k = 0 and 1 otherwise.
C14_ScoreFollowsFormula ==
    (Scored /\ x.profile_text # <<>> /\ ~HardRejected(CallText)) =>
        FracEq(ret.score,
               FormulaScore(CountOfSet(CallText, validator.keyword_terms),
                            Cardinality(validator.keyword_terms),
                            CountIn(CallText, PROFESSIONAL_TERMS),
                            AnyOfSet(Lower(x.job_title), validator.keyword_terms),
                            AnyOfSet(Lower(x.company), validator.keyword_terms)))

\* C14 witness: more than 5 professional terms, a job title that matches and
\* a company that does not
C14_Witness ==
    /\ Scored
    /\ x.profile_text # <<>>
    /\ ~HardRejected(CallText)
    /\ CountIn(CallText, PROFESSIONAL_TERMS) > 5
    /\ AnyOfSet(Lower(x.job_title), validator.keyword_terms)
    /\ x.company = <<>>

\* C15: keyword grounding: for a profile text that is not hard-rejected and
\* holds a professional term, the score with a keyword set of which no term
\* occurs in the combined text is strictly less than the score with a keyword
\* set of which a term occurs.
C15_KeywordGrounding ==
    (/\ Scored
     /\ ~HardRejected(CallText)
     /\ ContainsAny(Lower(x.profile_text), PROFESSIONAL_TERMS)
     /\ CountOfSet(CallText, validator.keyword_terms) = 0) =>
        \A kw \in KeywordLists :
            KeywordHits(kw, CallText) > 0 =>
                FracLess(ret.score,
                         calculate_relevance_score(NewValidator(kw), x.profile_text,
                             x.title, x.job_title, x.company).score)

\* C15 witness: the text of 4 professional terms scored with a keyword list
\* that misses it, while another keyword list matches it
C15_Witness ==
    /\ Scored
    /\ ~HardRejected(CallText)
    /\ CountIn(Lower(x.profile_text), PROFESSIONAL_TERMS) >= 4
    /\ CountOfSet(CallText, validator.keyword_terms) = 0
    /\ validator.keyword_terms # {}
    /\ \E kw \in KeywordLists : KeywordHits(kw, CallText) > 0

\* the example of C16
ExampleKeywords == << <<"R", "F", "I", "D">>, <<"e", "n", "g", "i", "n", "e", "e", "r">> >>
ExampleText == <<"S", "e", "n", "i", "o", "r", " ", "R", "F", "I", "D", " ", "E", "n", "g", "i", "n", "e", "e", "r", " ", "a", "t", " ", "A", "c", "m", "e", " ", "C", "o", "r", "p", ",", " ", "8", " ", "y", "e", "a", "r", "s", " ", "e", "x", "p", "e", "r", "i", "e", "n", "c", "e">>
ExampleCall ==
    /\ Scored
    /\ validator = NewValidator(ExampleKeywords)
    /\ x.profile_text = ExampleText
    /\ x.title = <<>> /\ x.job_title = <<>> /\ x.company = <<>>

\* C16: for the keywords ["RFID", "engineer"] and the profile text "Senior
\* RFID Engineer at Acme Corp, 8 years experience" the score is at least 0.3,
\* and validate_profile returns is_valid = true for a profile with a real
\* name longer than 2 characters.
C16_ExampleIsValid ==
    ExampleCall =>
        /\ FracLeq(Frac(3, 10), ret.score)
        /\ (Validated /\ x.name # <<>> /\ x.name # UNKNOWN /\ Len(x.name) > 2)
               => ret.is_valid

\* C16 witness: validate_profile ran on the example for a named profile
C16_Witness == ExampleCall /\ Validated /\ Len(x.name) > 2 /\ x.name # UNKNOWN

\* C17: not_company_page is false exactly when the profile text holds one of
\* the company-page phrases about us, our company, our team, contact us,
\* careers: the list of the company-page hard reject.
C17_NotCompanyPageUsesAllPhrases ==
    Validated =>
        (ret.checks.not_company_page
            <=> ~ContainsAny(Lower(x.profile_text), COMPANY_PAGE_INDICATORS))

(***************************************************************************)
(* Properties of the candidates (checked under SpecCandidates)             *)
(***************************************************************************)
\* the part of the email after its first '@'
DomainOf(email) ==
    LET at == {i \in DOMAIN email : email[i] = "@"}
    IN  IF at = {} THEN <<>> ELSE SubSeq(email, SetMin(at) + 1, Len(email))

\* the company of the context text, case-folded, without whitespace and
\* punctuation
CompanyKey(text) ==
    KeepChars(Lower(extract_company(text)), Range(LowerChars) \cup Digits \cup {".", "-"})

\* C18: is_profile_specific_email accepts a candidate through the company rule
\* only when the stripped, case-folded company name of the context text is a
\* substring of the domain of the candidate; a company name in the local part
\* alone does not make the candidate profile-specific.
C18_CompanyRuleReadsDomain ==
    (/\ entry = "candidates"
     /\ phase = "specific"
     /\ ret = TRUE
     /\ ~MatchesName(x.email, x.name)) =>
        /\ CompanyKey(x.profile_text) # <<>>
        /\ Contains(Lower(DomainOf(x.email)), CompanyKey(x.profile_text))

\* C19: one call of _extract_emails_from_content never returns two emails that
\* are equal after case-folding.
C19_NoCaseVariantsInOneCall ==
    (entry = "candidates" /\ phase = "extracted") =>
        \A i \in DOMAIN ret : \A j \in DOMAIN ret :
            i < j => Lower(ret[i]) # Lower(ret[j])

(***************************************************************************)
(* Determinism of the attribution (checked under SpecAttribution)          *)
(***************************************************************************)
\* C20: attribution is deterministic: for the same profile (name, text) and
\* the same set of captured candidates every run attributes the same email;
\* the email extract_profile_data chose is the only one it can choose.
C20_AttributionIsDeterministic ==
    (entry = "direct" /\ prof # NoInput /\ ~prof.failed) =>
        \A e \in ProfileEmails(prof.text_content, prof.name, prof.intercepted) :
            e = prof.email

(***************************************************************************)
(* Totality and keyword necessity of the validator (SpecRelevance)         *)
(***************************************************************************)
\* C21: the relevance engine is total: for every keyword list, the empty one
\* and one of only stopwords or tokens of at most 2 characters included (zero
\* keyword terms), and every string-valued profile, calculate_relevance_score
\* and validate_profile return and never raise (no division by zero).
C21_RelevanceEngineIsTotal ==
    entry = "validate" =>
        /\ phase # "raised"
        /\ Scored => ret.score.den > 0
        /\ Validated => ret.confidence.den > 0

\* C21 witness: validate_profile returned for a validator built from a
\* non-empty keyword list without a usable term, on a text that reaches the
\* weighted sum
C21_Witness ==
    /\ Validated
    /\ validator.keywords # <<>>
    /\ validator.keyword_terms = {}
    /\ x.profile_text # <<>>
    /\ ~HardRejected(CallText)
    /\ ret.score.den > 0

\* C30: keyword grounding is necessary: when no keyword term occurs in the
\* combined text (also when the validator has no usable term) the score is
\* below 0.3 and is_valid is false, however many professional terms match.
C30_NoKeywordNoValidity ==
    (Scored /\ CountOfSet(CallText, validator.keyword_terms) = 0) =>
        /\ FracLess(ret.score, Frac(3, 10))
        /\ Validated => ~ret.is_valid

\* C30 witness: a named profile with more than 5 professional terms and no
\* keyword term, scored above 0
C30_Witness ==
    /\ Validated
    /\ CountOfSet(CallText, validator.keyword_terms) = 0
    /\ CountIn(CallText, PROFESSIONAL_TERMS) > 5
    /\ ret.checks.has_name
    /\ FracLess(Frac(0, 1), ret.score)
    /\ ~ret.is_valid

(***************************************************************************)
(* Selection inside extract_email (checked under SpecAttribution)          *)
(***************************************************************************)
\* the non-generic addresses of a list, each with the confidence number c
Personal(emails, c) ==
    LET kept == SelectSeq(emails, LAMBDA e : ~ContainsGenericPattern(e))
    IN  [i \in DOMAIN kept |-> [email |-> kept[i], confidence |-> c]]

\* the candidates observed for the call a, in the order extract_email meets
\* them: the text, the URL, the address the scrape of the profile page gave
Observed(a) ==
    Personal(FindAll(a.text), 3)
        \o (IF a.url = <<>> THEN <<>> ELSE Personal(FindAll(a.url), 2))
        \o Personal(SelectSeq(<<ScrapedCandidate(a.profile_url, a.resp)>>,
                              LAMBDA e : e # <<>>), 4)

\* the inferred candidate: from the company of the call, else from the
\* company named in the text
Inferred(a) ==
    LET from(company) ==
            IF a.name = <<>> \/ company = <<>> THEN <<>>
            ELSE Personal(SelectSeq(<<infer_email_from_name_company(a.name, company)>>,
                                    LAMBDA e : e # <<>>), 1)
    IN  IF from(a.company) # <<>> THEN from(a.company)
        ELSE IF a.text # <<>> THEN from(extract_company(a.text))
        ELSE <<>>

\* the surviving candidates of the call: inference only when nothing was
\* observed
Survivors(a) == IF Observed(a) # <<>> THEN Observed(a) ELSE Inferred(a)

\* no observed candidate of the call is profile-specific
NoneProfileSpecific(a) ==
    \A i \in DOMAIN Observed(a) :
        ~is_profile_specific_email(Observed(a)[i].email, a.name, a.text)

\* C27: when extract_email finds no profile-specific candidate it returns the
\* surviving candidate with the highest confidence number (scraped page 4 >
\* profile text 3 > URL 2 > inferred 1), among equal confidence the one met
\* first; it returns the empty string exactly when no candidate survives.
C27_BestSurvivorReturned ==
    (Returned /\ NoneProfileSpecific(x)) =>
        /\ (email_out = <<>>) <=> (Survivors(x) = <<>>)
        /\ Survivors(x) # <<>> =>
               \E i \in DOMAIN Survivors(x) :
                   /\ email_out = Survivors(x)[i].email
                   /\ \A j \in DOMAIN Survivors(x) :
                          /\ Survivors(x)[j].confidence <= Survivors(x)[i].confidence
                          /\ j < i => Survivors(x)[j].confidence
                                          < Survivors(x)[i].confidence

\* C27 witness: two text candidates of equal confidence, a URL candidate and
\* a scraped candidate, none profile-specific; the scraped one, met last, is
\* returned
C27_Witness ==
    /\ Returned
    /\ NoneProfileSpecific(x)
    /\ Len(Survivors(x)) = 4
    /\ Survivors(x)[1].confidence = Survivors(x)[2].confidence
    /\ email_out = Survivors(x)[4].email
    /\ email_out # Survivors(x)[1].email

\* C27 second witness: the same without a scraped candidate, the first of the
\* two text candidates is returned
C27_TieWitness ==
    /\ Returned
    /\ NoneProfileSpecific(x)
    /\ Len(Survivors(x)) = 3
    /\ Survivors(x)[1].confidence = Survivors(x)[2].confidence
    /\ Survivors(x)[1].email # Survivors(x)[2].email
    /\ email_out = Survivors(x)[1].email

\* C29: if the text given to extract_email holds a non-generic email with a
\* token of the name longer than 2 characters, extract_email returns an email
\* with a token of the name: an earlier email that is profile-specific only
\* through the company rule does not pre-empt it, and the final name check of
\* the route keeps the profile.
C29_NameTokenEmailReturned ==
    (/\ Returned
     /\ \E k \in DOMAIN FindAll(x.text) :
            /\ ~ContainsGenericPattern(FindAll(x.text)[k])
            /\ CarriesNameToken(FindAll(x.text)[k], x.name)) =>
        CarriesNameToken(email_out, x.name)

(***************************************************************************)
(* Isolation of the profiles of one scraper (SpecAttribution)              *)
(***************************************************************************)
\* C22: per-profile isolation: the candidates considered for a profile are
\* only those captured while that profile is processed; an email intercepted
\* from a network response during the page load of an earlier profile is
\* never returned for a profile the same scraper processes later.
C22_OnlyOwnCandidates ==
    (entry = "direct" /\ prof # NoInput /\ ~prof.failed /\ prof.email # <<>>) =>
        \/ prof.email \in Range(FindAll(prof.text_content))
        \/ prof.email \in prof.fresh

(***************************************************************************)
(* scrape_profile_email (checked under SpecCandidates)                     *)
(***************************************************************************)
Scraped == entry = "candidates" /\ phase = "scraped"

\* C28: scrape_profile_email never raises: on a navigation timeout or any
\* other exception it returns success false, no emails and an error that is
\* not None; otherwise error is None and success is true exactly when the
\* returned list is non-empty; every returned email is lower-cased, trimmed
\* and holds no excluded pattern.
C28_ScrapeAlwaysReturns ==
    Scraped =>
        /\ x.page.raised # "no" =>
               ret.emails = <<>> /\ ~ret.success /\ ret.error # <<>>
        /\ x.page.raised = "no" =>
               ret.error = <<>> /\ (ret.success <=> ret.emails # <<>>)
        /\ \A i \in DOMAIN ret.emails :
               /\ ret.emails[i] = Lower(ret.emails[i])
               /\ ret.emails[i] = Strip(ret.emails[i])
               /\ \A k \in DOMAIN EXCLUDED_EMAIL_PATTERNS :
                      ~Contains(ret.emails[i], EXCLUDED_EMAIL_PATTERNS[k])

\* C28 witness: a page whose section holds an address in upper case that
\* matches the name, whose shadow DOM holds an excluded address and a
\* personal one; the name-matching address comes first, lower-cased
C28_Witness ==
    /\ Scraped
    /\ x.page.raised = "no"
    /\ x.page.sections # <<>>
    /\ x.page.shadow_emails # <<>>
    /\ ret.success
    /\ Len(ret.emails) >= 3
    /\ ret.emails[1] = <<"a", "n", "n", "@", "a", "b", ".", "i", "o">>

\* C28 second witness: the navigation timed out
C28_TimeoutWitness ==
    Scraped /\ x.page.raised = "timeout" /\ ~ret.success /\ ret.error # <<>>

(***************************************************************************)
(* Key rotation (checked under SpecRotation and SpecRotationLive)          *)
(***************************************************************************)
\* C23: after Config.mark_quota_exceeded(k) for a configured key k (the
\* default key or one of MULTIPLE_API_KEYS) every later get_available_key()
\* returns a key other than k, and None once every configured key is marked.
C23_MarkedKeyNeverReturned ==
    (entry = "config" /\ phase = "got") =>
        /\ ret # None => ret.api_key \notin x.marked
        /\ ConfiguredKeys(config) \subseteq x.marked => ret = None

\* C24: the pagination loop of the route always terminates: when every
\* response reports the quota exceeded (key rotation enabled or not) the
\* route stops sending requests and answers, and when every fetched item is
\* filtered out the number of requests stays bounded, the route answers.
C24_RouteTerminates ==
    (entry = "scrape" /\ phase = "top" /\ x.api \in {"quota", "filtered"})
        ~> (phase = "returned")

\* C25: when the request counter reaches max_requests with key rotation
\* enabled, more than one key configured and fewer than limit results, the
\* next request is sent with another API key than the one that reached the
\* limit.
C25_RotationChangesKey ==
    (entry = "scrape" /\ phase = "request" /\ x.rotated_from # "") =>
        x.api_key # x.rotated_from

\* C26: every page of items the loop fetches is processed into results
\* before the loop is left or rotates: the items of the request that reaches
\* max_requests are not discarded.
C26_FetchedPagesAreProcessed ==
    (entry = "scrape" /\ phase \in {"top", "returned"}) =>
        (x.items # <<>> => x.looped)

====
